---- MODULE Spec2Model ----
(***************************************************************************)
(* WorkShift.AI: the automation-risk scoring model                         *)
(* (scripts/automation_risk_analyzer.py) and the collaborators that call   *)
(* it (scripts/integrated_analysis.py).                                    *)
(*                                                                         *)
(* Scores are Python floats, i.e. IEEE-754 binary64 values.  The model     *)
(* computes them bit-exactly: a float is a sign, a 53-bit mantissa and an   *)
(* exponent, the mantissa held as a little-endian sequence of 14-bit       *)
(* limbs, and every arithmetic operation rounds its exact result to 53     *)
(* significant bits, ties to even.                                         *)
(* Decimal literals of the source are written as integers in units of      *)
(* 10^-4 (0.95 is 9500) and converted to the nearest binary64 value.       *)
(***************************************************************************)
EXTENDS Integers, Sequences, FiniteSets, TLC

\* ------------------------------------------------------------------------
\* The state machine: the caller calls one operation at a time and takes
\* its result before the next call
\* ------------------------------------------------------------------------
Idle == [op |-> "idle", arg |-> <<>>, raised |-> FALSE, val |-> <<>>]

Returned(op, arg, val) ==
    [op |-> op, arg |-> arg, raised |-> FALSE, val |-> val]

Raised(op, arg, exception) ==
    [op |-> op, arg |-> arg, raised |-> TRUE, val |-> exception]

\* ------------------------------------------------------------------------
\* Natural numbers below 2^112: eight limbs of 14 bits, least significant
\* limb first
\* ------------------------------------------------------------------------
LimbBits == 14
Base == 16384
MantBits == 53
DecScale == 10000

Pow2Tab == <<1, 2, 4, 8, 16, 32, 64, 128, 256, 512, 1024, 2048, 4096, 8192,
             16384>>

Pow2(n) == Pow2Tab[n + 1]

Limb(a, i) == IF i >= 1 /\ i <= Len(a) THEN a[i] ELSE 0

BigZero == <<0, 0, 0, 0, 0, 0, 0, 0>>

BigOne == <<1, 0, 0, 0, 0, 0, 0, 0>>

BigAdd(a, b) ==
    LET s1 == a[1] + b[1]
        s2 == a[2] + b[2] + (s1 \div Base)
        s3 == a[3] + b[3] + (s2 \div Base)
        s4 == a[4] + b[4] + (s3 \div Base)
        s5 == a[5] + b[5] + (s4 \div Base)
        s6 == a[6] + b[6] + (s5 \div Base)
        s7 == a[7] + b[7] + (s6 \div Base)
        s8 == a[8] + b[8] + (s7 \div Base)
    IN  <<s1 % Base, s2 % Base, s3 % Base, s4 % Base,
          s5 % Base, s6 % Base, s7 % Base, s8 % Base>>

\* a - b for a >= b
BigSub(a, b) ==
    LET d1 == a[1] - b[1]
        d2 == a[2] - b[2] - (IF d1 < 0 THEN 1 ELSE 0)
        d3 == a[3] - b[3] - (IF d2 < 0 THEN 1 ELSE 0)
        d4 == a[4] - b[4] - (IF d3 < 0 THEN 1 ELSE 0)
        d5 == a[5] - b[5] - (IF d4 < 0 THEN 1 ELSE 0)
        d6 == a[6] - b[6] - (IF d5 < 0 THEN 1 ELSE 0)
        d7 == a[7] - b[7] - (IF d6 < 0 THEN 1 ELSE 0)
        d8 == a[8] - b[8] - (IF d7 < 0 THEN 1 ELSE 0)
    IN  <<d1 % Base, d2 % Base, d3 % Base, d4 % Base,
          d5 % Base, d6 % Base, d7 % Base, d8 % Base>>

\* a < b
BigLt(a, b) ==
    \E i \in 1..8 : a[i] < b[i] /\ \A k \in (i + 1)..8 : a[k] = b[k]

\* the product of two numbers of four limbs
BigMul(a, b) ==
    LET c1 == a[1] * b[1]
        c2 == a[1] * b[2] + a[2] * b[1] + (c1 \div Base)
        c3 == a[1] * b[3] + a[2] * b[2] + a[3] * b[1] + (c2 \div Base)
        c4 == a[1] * b[4] + a[2] * b[3] + a[3] * b[2] + a[4] * b[1]
                 + (c3 \div Base)
        c5 == a[2] * b[4] + a[3] * b[3] + a[4] * b[2] + (c4 \div Base)
        c6 == a[3] * b[4] + a[4] * b[3] + (c5 \div Base)
        c7 == a[4] * b[4] + (c6 \div Base)
    IN  <<c1 % Base, c2 % Base, c3 % Base, c4 % Base,
          c5 % Base, c6 % Base, c7 % Base, c7 \div Base>>

\* a * 2^n, for a result below 2^112
BigShl(a, n) ==
    LET q == n \div LimbBits
        r == n % LimbBits
    IN  [i \in 1..8 |->
            ((Limb(a, i - q) * Pow2(r)) % Base)
              + ((Limb(a, i - q - 1) * Pow2(r)) \div Base)]

\* a \div 2^n
BigShr(a, n) ==
    LET q == n \div LimbBits
        r == n % LimbBits
    IN  [i \in 1..8 |->
            (Limb(a, i + q) \div Pow2(r))
              + ((Limb(a, i + q + 1) % Pow2(r)) * Pow2(LimbBits - r))]

\* the number of bits of a
BitLen(a) ==
    IF a = BigZero THEN 0
    ELSE LET t == CHOOSE i \in 1..8 :
                      a[i] # 0 /\ \A k \in (i + 1)..8 : a[k] = 0
             l == CHOOSE k \in 1..LimbBits :
                      Pow2(k) > a[t] /\ Pow2(k - 1) <= a[t]
         IN  (t - 1) * LimbBits + l

\* bit i of a, bit 0 the least significant
Bit(a, i) == (Limb(a, i \div LimbBits + 1) \div Pow2(i % LimbBits)) % 2

\* some bit of a below bit n is set
AnyLow(a, n) ==
    \E i \in 1..8 :
        \/ i < n \div LimbBits + 1 /\ a[i] # 0
        \/ i = n \div LimbBits + 1 /\ a[i] % Pow2(n % LimbBits) # 0

\* the four low limbs of a number below 2^56; a number of four limbs as one
\* of eight
Low4(a) == <<a[1], a[2], a[3], a[4]>>

Ext8(m) == <<m[1], m[2], m[3], m[4], 0, 0, 0, 0>>

\* ------------------------------------------------------------------------
\* Python float: IEEE-754 binary64, round to nearest, ties to even.
\* A float is zero (man all zero, exp 0) or (-1)^neg * man * 2^exp with a
\* mantissa man of exactly MantBits bits, held in four limbs.  Exponent
\* overflow and subnormal numbers are not modelled: every value computed
\* here has a magnitude between 2^-80 and 4.
\* ------------------------------------------------------------------------
ManZero == <<0, 0, 0, 0>>

FZero == [neg |-> FALSE, man |-> ManZero, exp |-> 0]

\* the float nearest to a * 2^e; sticky says that the exact value lies
\* strictly between a * 2^e and (a + 1) * 2^e
Normalize(neg, a, e, sticky) ==
    IF a = BigZero THEN FZero
    ELSE LET sh == BitLen(a) - MantBits
         IN  IF sh <= 0
             THEN [neg |-> neg, man |-> Low4(BigShl(a, -sh)), exp |-> e + sh]
             ELSE LET q    == BigShr(a, sh)
                      half == Bit(a, sh - 1) = 1
                      low  == AnyLow(a, sh - 1) \/ sticky
                      odd  == Bit(a, sh) = 1
                      r    == IF half /\ (low \/ odd)
                              THEN BigAdd(q, BigOne) ELSE q
                  IN  IF BitLen(r) > MantBits
                      THEN [neg |-> neg, man |-> Low4(BigShr(r, 1)),
                            exp |-> e + sh + 1]
                      ELSE [neg |-> neg, man |-> Low4(r), exp |-> e + sh]

FNeg(x) == IF x.man = ManZero THEN x ELSE [x EXCEPT !.neg = ~x.neg]

\* x + y for exponents x.exp >= y.exp; a summand more than 58 binary places
\* below the other is less than 1/64 of its last place and rounds away
FAddOrdered(x, y) ==
    IF x.exp - y.exp > 58 THEN x
    ELSE LET a == BigShl(x.man, x.exp - y.exp)
             b == Ext8(y.man)
         IN  IF x.neg = y.neg
             THEN Normalize(x.neg, BigAdd(a, b), y.exp, FALSE)
             ELSE IF a = b THEN FZero
             ELSE IF BigLt(b, a)
                  THEN Normalize(x.neg, BigSub(a, b), y.exp, FALSE)
                  ELSE Normalize(y.neg, BigSub(b, a), y.exp, FALSE)

FAdd(x, y) ==
    IF x.man = ManZero THEN y
    ELSE IF y.man = ManZero THEN x
    ELSE IF x.exp >= y.exp THEN FAddOrdered(x, y)
    ELSE FAddOrdered(y, x)

FSub(x, y) == FAdd(x, FNeg(y))

FMul(x, y) ==
    IF x.man = ManZero \/ y.man = ManZero THEN FZero
    ELSE Normalize(x.neg # y.neg, BigMul(x.man, y.man), x.exp + y.exp,
                   FALSE)

\* |x| < |y|
MagLt(x, y) ==
    IF y.man = ManZero THEN FALSE
    ELSE IF x.man = ManZero THEN TRUE
    ELSE IF x.exp # y.exp THEN x.exp < y.exp
    ELSE BigLt(Ext8(x.man), Ext8(y.man))

\* x < y
FLt(x, y) ==
    IF x.neg /\ ~y.neg THEN TRUE
    ELSE IF ~x.neg /\ y.neg THEN FALSE
    ELSE IF x.neg THEN MagLt(y, x)
    ELSE MagLt(x, y)

\* x >= y
FGe(x, y) == ~FLt(x, y)

\* the float that the decimal literal n / DecScale denotes, |n| < 2^28:
\* the quotient of |n| * 2^70 by DecScale, limb by limb from the top, then
\* rounded
FromDecimal(n) ==
    LET a  == IF n < 0 THEN -n ELSE n
        c7 == a \div Base
        c6 == (c7 % DecScale) * Base + (a % Base)
        c5 == (c6 % DecScale) * Base
        c4 == (c5 % DecScale) * Base
        c3 == (c4 % DecScale) * Base
        c2 == (c3 % DecScale) * Base
        c1 == (c2 % DecScale) * Base
        q  == <<c1 \div DecScale, c2 \div DecScale, c3 \div DecScale,
                c4 \div DecScale, c5 \div DecScale, c6 \div DecScale,
                c7 \div DecScale, 0>>
    IN  Normalize(n < 0, q, -70, (c1 % DecScale) # 0)

\* ------------------------------------------------------------------------
\* AutomationRiskAnalyzer: the static tables
\* ------------------------------------------------------------------------

\* a Python dict is a sequence of [key, val] entries in insertion order
DictKeys(d) == {d[i].key : i \in 1..Len(d)}

DictGet(d, k) == d[CHOOSE i \in 1..Len(d) : d[i].key = k].val

\* the weight table with the sign of the last weight lost
RiskFactorsSignLost ==
    << [key |-> "routine_tasks",            val |-> FromDecimal(3000)],
       [key |-> "data_processing",          val |-> FromDecimal(2000)],
       [key |-> "human_interaction",        val |-> FromDecimal(-2500)],
       [key |-> "creative_problem_solving", val |-> FromDecimal(-3000)],
       [key |-> "technical_complexity",     val |-> FromDecimal(-1500)],
       [key |-> "physical_presence",        val |-> FromDecimal(1000)] >>

\* self.risk_factors, in the order the literal lists the factors
InitialRiskFactors ==
    << [key |-> "routine_tasks",            val |-> FromDecimal(3000)],
       [key |-> "data_processing",          val |-> FromDecimal(2000)],
       [key |-> "human_interaction",        val |-> FromDecimal(-2500)],
       [key |-> "creative_problem_solving", val |-> FromDecimal(-3000)],
       [key |-> "technical_complexity",     val |-> FromDecimal(-1500)],
       [key |-> "physical_presence",        val |-> FromDecimal(-1000)] >>

\* the literals of a profile, in units of 1/DecScale
Lit(rt, dp, hi, cps, tc, pp, br) ==
    [routine_tasks            |-> rt,
     data_processing          |-> dp,
     human_interaction        |-> hi,
     creative_problem_solving |-> cps,
     technical_complexity     |-> tc,
     physical_presence        |-> pp,
     base_risk                |-> br]

\* the dict literal of _initialize_risk_profiles, as written
RoleLiterals ==
    <<
        [key |-> "Data Entry",
         val |-> Lit(9500, 9000, 1000, 500, 2000, 500, 8500)],
        [key |-> "QA Tester",
         val |-> Lit(7000, 6000, 3000, 3000, 4000, 1000, 6500)],
        [key |-> "Data Analyst",
         val |-> Lit(6000, 8500, 4000, 5000, 6000, 500, 5500)],
        [key |-> "Frontend Developer",
         val |-> Lit(5000, 4000, 5000, 7000, 7000, 500, 3500)],
        [key |-> "Backend Developer",
         val |-> Lit(5500, 6000, 3500, 6500, 8000, 500, 4000)],
        [key |-> "Full Stack Developer",
         val |-> Lit(4500, 5000, 4500, 7500, 8500, 500, 3000)],
        [key |-> "DevOps Engineer",
         val |-> Lit(6500, 5500, 4000, 6000, 9000, 1000, 4500)],
        [key |-> "Machine Learning Engineer",
         val |-> Lit(4000, 8000, 3500, 8500, 9500, 500, 2500)],
        [key |-> "Data Scientist",
         val |-> Lit(3500, 8500, 4500, 9000, 9000, 500, 2000)],
        [key |-> "Software Engineer",
         val |-> Lit(4000, 5000, 5000, 8000, 8500, 500, 2500)],
        [key |-> "Cloud Engineer",
         val |-> Lit(5500, 5000, 3500, 6500, 8500, 500, 4000)],
        [key |-> "Security Engineer",
         val |-> Lit(4500, 6000, 4000, 8000, 9000, 1000, 3000)],
        [key |-> "Product Manager",
         val |-> Lit(3000, 4000, 9000, 8500, 5000, 4000, 1500)],
        [key |-> "Engineering Manager",
         val |-> Lit(2500, 3000, 9500, 8000, 6000, 5000, 1000)]
    >>

\* the profile with every number recentred around its midpoint when stored
RoleProfileRecentred(lit) ==
    [f \in DOMAIN lit |-> FromDecimal(lit[f] - (DecScale \div 2))]

\* the profile that Python holds for a literal: every number a float
RoleProfile(lit) == [f \in DOMAIN lit |-> FromDecimal(lit[f])]

\* self.role_risk_profiles as _initialize_risk_profiles builds it
InitialRoleRiskProfiles ==
    [i \in 1..Len(RoleLiterals) |->
        [key |-> RoleLiterals[i].key, val |-> RoleProfile(RoleLiterals[i].val)]]

VARIABLES
    role_risk_profiles,   \* self.role_risk_profiles of the analyzer
    risk_factors,         \* self.risk_factors of the analyzer
    market_df,            \* market_analyzer.df, None or a sequence of rows
    integrated_df,        \* self.integrated_df, None or a sequence of rows
    risk_analyzer,        \* the class of the analyzer the dashboard holds
    collector,            \* the job collector of a collection run: its
                          \* class, its credentials and its jobs_data
    ret                   \* the call in progress: its operation, its
                          \* argument, and what it returned or that it raised

vars == <<role_risk_profiles, risk_factors, market_df, integrated_df,
          risk_analyzer, collector, ret>>

\* ------------------------------------------------------------------------
\* AutomationRiskAnalyzer: scoring and classification
\* ------------------------------------------------------------------------
\* the floats 0.5 and 1.0 (2^52 * 2^-53 and 2^52 * 2^-52)
FHalf == [neg |-> FALSE, man |-> <<0, 0, 0, 1024>>, exp |-> -53]

FOne == [neg |-> FALSE, man |-> <<0, 0, 0, 1024>>, exp |-> -52]

RECURSIVE ApplyFactorsNoRecenter(_, _, _, _)
\* the loop without the recentering: risk_score += weight * profile[factor]
ApplyFactorsNoRecenter(factors, profile, i, risk_score) ==
    IF i > Len(factors) THEN risk_score
    ELSE LET factor == factors[i].key
             weight == factors[i].val
         IN  ApplyFactorsNoRecenter(factors, profile, i + 1,
                 IF factor \in DOMAIN profile
                 THEN FAdd(risk_score, FMul(weight, profile[factor]))
                 ELSE risk_score)

\* risk_score once the factors i, i+1, ... of the weight table are applied
RECURSIVE ApplyFactors(_, _, _, _)
ApplyFactors(factors, profile, i, risk_score) ==
    IF i > Len(factors) THEN risk_score
    ELSE LET factor == factors[i].key
             weight == factors[i].val
         IN  ApplyFactors(factors, profile, i + 1,
                 IF factor \in DOMAIN profile
                 THEN FAdd(risk_score,
                           FMul(weight, FSub(profile[factor], FHalf)))
                 ELSE risk_score)

\* the clamp without its lower bound: min(1, risk_score)
ClampUpperOnly(risk_score) ==
    IF FLt(risk_score, FOne) THEN risk_score ELSE FOne

\* max(0, min(1, risk_score)): min returns its first argument 1 unless
\* risk_score < 1, max returns its first argument 0 unless the other is > 0
\* (the int 1 and the int 0 that Python returns there equal the floats)
Clamp(risk_score) ==
    LET m == IF FLt(risk_score, FOne) THEN risk_score ELSE FOne
    IN  IF FLt(FZero, m) THEN m ELSE FZero

\* the weighted sum of a known role before it is clamped
WeightedSum(role) ==
    LET profile == DictGet(role_risk_profiles, role)
    IN  ApplyFactors(risk_factors, profile, 1, profile.base_risk)

\* the scoring with a fallback of 0 for an unknown role
calculate_automation_risk_zero_default(role) ==
    IF role \notin DictKeys(role_risk_profiles)
    THEN FZero
    ELSE Clamp(WeightedSum(role))

calculate_automation_risk(role) ==
    IF role \notin DictKeys(role_risk_profiles)
    THEN FHalf
    ELSE Clamp(WeightedSum(role))

\* the chain with thresholds exclusive: > where the source has >=
get_risk_level_exclusive(score) ==
    IF FLt(FromDecimal(7000), score) THEN "Very High"
    ELSE IF FLt(FromDecimal(5000), score) THEN "High"
    ELSE IF FLt(FromDecimal(3000), score) THEN "Medium"
    ELSE IF FLt(FromDecimal(1500), score) THEN "Low"
    ELSE "Very Low"

\* the chain applied to the distance of the score from 1
get_risk_level_inverted(score) ==
    IF FGe(FSub(FOne, score), FromDecimal(7000)) THEN "Very High"
    ELSE IF FGe(FSub(FOne, score), FromDecimal(5000)) THEN "High"
    ELSE IF FGe(FSub(FOne, score), FromDecimal(3000)) THEN "Medium"
    ELSE IF FGe(FSub(FOne, score), FromDecimal(1500)) THEN "Low"
    ELSE "Very Low"

get_risk_level(score) ==
    IF FGe(score, FromDecimal(7000)) THEN "Very High"
    ELSE IF FGe(score, FromDecimal(5000)) THEN "High"
    ELSE IF FGe(score, FromDecimal(3000)) THEN "Medium"
    ELSE IF FGe(score, FromDecimal(1500)) THEN "Low"
    ELSE "Very Low"

\* ------------------------------------------------------------------------
\* Job titles.  A Python str is the sequence of its characters; a missing
\* value of a dataframe column is the float NaN.
\* ------------------------------------------------------------------------
\* NaN is told from every str by a mark that is no character
NaN == <<"float(nan)">>

Upper == <<"A", "B", "C", "D", "E", "F", "G", "H", "I", "J", "K", "L", "M",
           "N", "O", "P", "Q", "R", "S", "T", "U", "V", "W", "X", "Y", "Z">>

Lower == <<"a", "b", "c", "d", "e", "f", "g", "h", "i", "j", "k", "l", "m",
           "n", "o", "p", "q", "r", "s", "t", "u", "v", "w", "x", "y", "z">>

\* str.lower, character by character
LowerChar(c) ==
    IF \E i \in 1..Len(Upper) : Upper[i] = c
    THEN Lower[CHOOSE i \in 1..Len(Upper) : Upper[i] = c]
    ELSE c

StrLower(s) == [i \in 1..Len(s) |-> LowerChar(s[i])]

\* keyword in title
StrContains(title, keyword) ==
    \E i \in 0..(Len(title) - Len(keyword)) :
        SubSeq(title, i + 1, i + Len(keyword)) = keyword

\* the dict literal mappings of map_to_risk_category, in its order
Mappings ==
    <<
        [key |->
            <<"d", "a", "t", "a", " ", "s", "c", "i", "e", "n", "t",
              "i", "s", "t">>,
         val |-> "Data Scientist"],
        [key |->
            <<"m", "a", "c", "h", "i", "n", "e", " ", "l", "e", "a",
              "r", "n", "i", "n", "g">>,
         val |-> "Machine Learning Engineer"],
        [key |->
            <<"p", "r", "o", "d", "u", "c", "t", " ", "m", "a", "n",
              "a", "g", "e", "r">>,
         val |-> "Product Manager"],
        [key |->
            <<"d", "e", "v", "o", "p", "s">>,
         val |-> "DevOps Engineer"],
        [key |->
            <<"f", "r", "o", "n", "t", "e", "n", "d">>,
         val |-> "Frontend Developer"],
        [key |->
            <<"b", "a", "c", "k", "e", "n", "d">>,
         val |-> "Backend Developer"],
        [key |->
            <<"f", "u", "l", "l", " ", "s", "t", "a", "c", "k">>,
         val |-> "Full Stack Developer"],
        [key |->
            <<"s", "o", "f", "t", "w", "a", "r", "e", " ", "e", "n",
              "g", "i", "n", "e", "e", "r">>,
         val |-> "Software Engineer"],
        [key |->
            <<"s", "o", "f", "t", "w", "a", "r", "e", " ", "d", "e",
              "v", "e", "l", "o", "p", "e", "r">>,
         val |-> "Software Engineer"],
        [key |->
            <<"c", "l", "o", "u", "d", " ", "e", "n", "g", "i", "n",
              "e", "e", "r">>,
         val |-> "Cloud Engineer"],
        [key |->
            <<"s", "e", "c", "u", "r", "i", "t", "y", " ", "e", "n",
              "g", "i", "n", "e", "e", "r">>,
         val |-> "Security Engineer"],
        [key |->
            <<"d", "a", "t", "a", " ", "a", "n", "a", "l", "y", "s", "t">>,
         val |-> "Data Analyst"]
    >>

TitleDataScientist ==
    <<"D", "a", "t", "a", " ", "S", "c", "i", "e", "n", "t", "i", "s",
      "t">>

TitleSeniorDevOps ==
    <<"S", "e", "n", "i", "o", "r", " ", "D", "E", "V", "O", "P", "S",
      " ", "E", "n", "g", "i", "n", "e", "e", "r">>

TitleProductManager ==
    <<"p", "r", "o", "d", "u", "c", "t", " ", "m", "a", "n", "a", "g",
      "e", "r">>

TitleAnalystScientist ==
    <<"D", "a", "t", "a", " ", "A", "n", "a", "l", "y", "s", "t", " ",
      "/", " ", "D", "a", "t", "a", " ", "S", "c", "i", "e", "n", "t",
      "i", "s", "t">>

TitleNurse ==
    <<"N", "u", "r", "s", "e">>

RECURSIVE FirstMatchFromLast(_, _)
\* the loop going through the rules from the last to the first
FirstMatchFromLast(title_lower, i) ==
    IF i > Len(Mappings) THEN "Software Engineer"
    ELSE IF StrContains(title_lower, Mappings[Len(Mappings) + 1 - i].key)
         THEN Mappings[Len(Mappings) + 1 - i].val
    ELSE FirstMatchFromLast(title_lower, i + 1)

RECURSIVE FirstMatch(_, _)
\* for keyword, category in mappings.items(), from entry i on: the category
\* of the first keyword the lowered title contains, else the default
FirstMatch(title_lower, i) ==
    IF i > Len(Mappings) THEN "Software Engineer"
    ELSE IF StrContains(title_lower, Mappings[i].key) THEN Mappings[i].val
    ELSE FirstMatch(title_lower, i + 1)

\* AutomationRiskAnalyzer.map_to_risk_category: job_title.lower() raises
\* AttributeError when job_title is the float NaN
map_to_risk_category(job_title) ==
    IF job_title = NaN
    THEN [raised |-> TRUE, val |-> "AttributeError"]
    ELSE [raised |-> FALSE, val |-> FirstMatch(StrLower(job_title), 1)]

\* the dict literal mappings of the map_to_risk_category local to
\* create_integrated_dataset, in its order
IntegratedMappings ==
    <<
        [key |->
            <<"d", "a", "t", "a", " ", "s", "c", "i", "e", "n", "t",
              "i", "s", "t">>,
         val |-> "Data Scientist"],
        [key |->
            <<"m", "a", "c", "h", "i", "n", "e", " ", "l", "e", "a",
              "r", "n", "i", "n", "g">>,
         val |-> "Machine Learning Engineer"],
        [key |->
            <<"p", "r", "o", "d", "u", "c", "t", " ", "m", "a", "n",
              "a", "g", "e", "r">>,
         val |-> "Product Manager"],
        [key |->
            <<"d", "e", "v", "o", "p", "s">>,
         val |-> "DevOps Engineer"],
        [key |->
            <<"f", "r", "o", "n", "t", "e", "n", "d">>,
         val |-> "Frontend Developer"],
        [key |->
            <<"b", "a", "c", "k", "e", "n", "d">>,
         val |-> "Backend Developer"],
        [key |->
            <<"f", "u", "l", "l", " ", "s", "t", "a", "c", "k">>,
         val |-> "Full Stack Developer"],
        [key |->
            <<"s", "o", "f", "t", "w", "a", "r", "e", " ", "e", "n",
              "g", "i", "n", "e", "e", "r">>,
         val |-> "Software Engineer"],
        [key |->
            <<"s", "o", "f", "t", "w", "a", "r", "e", " ", "d", "e",
              "v", "e", "l", "o", "p", "e", "r">>,
         val |-> "Software Engineer"],
        [key |->
            <<"c", "l", "o", "u", "d", " ", "e", "n", "g", "i", "n",
              "e", "e", "r">>,
         val |-> "Cloud Engineer"],
        [key |->
            <<"s", "e", "c", "u", "r", "i", "t", "y", " ", "e", "n",
              "g", "i", "n", "e", "e", "r">>,
         val |-> "Security Engineer"],
        [key |->
            <<"d", "a", "t", "a", " ", "a", "n", "a", "l", "y", "s", "t">>,
         val |-> "Data Analyst"]
    >>

RECURSIVE IntegratedFirstMatchNoDevops(_, _)
\* the loop over a local table that lacks the rule for 'devops'
IntegratedFirstMatchNoDevops(title_lower, i) ==
    IF i > Len(IntegratedMappings) THEN "Software Engineer"
    ELSE IF /\ IntegratedMappings[i].val # "DevOps Engineer"
            /\ StrContains(title_lower, IntegratedMappings[i].key)
         THEN IntegratedMappings[i].val
    ELSE IntegratedFirstMatchNoDevops(title_lower, i + 1)

RECURSIVE IntegratedFirstMatch(_, _)
\* for keyword, category in mappings.items() of the local function, from
\* entry i on
IntegratedFirstMatch(title_lower, i) ==
    IF i > Len(IntegratedMappings) THEN "Software Engineer"
    ELSE IF StrContains(title_lower, IntegratedMappings[i].key)
         THEN IntegratedMappings[i].val
    ELSE IntegratedFirstMatch(title_lower, i + 1)

\* the local function returning a label of its own for a missing title
integrated_map_missing_as_other(job_title) ==
    IF job_title = NaN THEN "Other"
    ELSE IntegratedFirstMatch(StrLower(job_title), 1)

\* the map_to_risk_category local to create_integrated_dataset: pd.isna is
\* tested first, and str() of a str is that str
integrated_map_to_risk_category(job_title) ==
    IF job_title = NaN THEN "Software Engineer"
    ELSE IntegratedFirstMatch(StrLower(job_title), 1)

\* ------------------------------------------------------------------------
\* pandas: DataFrame.sort_values and the format spec .2f
\* ------------------------------------------------------------------------
\* no sort at all: the rows stay in the order they were appended in
ArgSortsUnsorted(keys, left, ascending) ==
    {[k \in 1..Cardinality(left) |-> k]}

RECURSIVE ArgSorts(_, _, _)
\* sort_values(column, ascending) with the default kind='quicksort', which
\* is not a stable sort: every order of the row indices in `left` that puts
\* the keys in order, rows of equal key in any order
ArgSorts(keys, left, ascending) ==
    IF left = {} THEN {<<>>}
    ELSE LET first == {i \in left : \A j \in left :
                          IF ascending THEN ~FLt(keys[j], keys[i])
                          ELSE ~FLt(keys[i], keys[j])}
         IN  UNION {{<<i>> \o rest :
                        rest \in ArgSorts(keys, left \ {i}, ascending)} :
                    i \in first}

\* the frame cut to all but its last row
TakeAllButLast(rows, order) == [k \in 1..(Len(order) - 1) |-> rows[order[k]]]

\* the rows in the order of the indices
Take(rows, order) == [k \in 1..Len(order) |-> rows[order[k]]]

\* f"{x:.2f}" for 0 <= x <= 1, as the number of hundredths it shows: the
\* exact value of x times 100, rounded to an integer, ties to even
Format2f(x) ==
    IF x.man = ManZero THEN 0
    ELSE LET p    == BigMul(x.man, <<100, 0, 0, 0>>)
             s    == -x.exp
             q    == BigShr(p, s)[1]
             half == Bit(p, s - 1) = 1
             low  == AnyLow(p, s - 1)
         IN  IF half /\ (low \/ q % 2 = 1) THEN q + 1 ELSE q

\* ------------------------------------------------------------------------
\* The inputs the operations are called with
\* ------------------------------------------------------------------------
\* labels that are no key of the table: the spelling of a key matters
UnknownLabels ==
    {"Nonexistent Role Xyz", "data scientist", "Data Scientist ", ""}

\* scores handed to get_risk_level, as decimal literals in units of
\* 1/DecScale: the thresholds, their neighbours and values outside [0,1]
ProbeDecimals ==
    {-2500, 0, 1025, 1499, 1500, 1501, 2999, 3000, 4999, 5000, 6999, 7000,
     7001, 10000, 13900}

\* values handed to the normalization: titles, a missing value, and every
\* keyword of the rules by itself
JobTitles ==
    {TitleDataScientist, TitleSeniorDevOps, TitleProductManager,
     TitleAnalystScientist, TitleNurse, NaN}
    \cup {Mappings[i].key : i \in 1..Len(Mappings)}

\* a dataframe attribute is None or holds a sequence of rows
None == [none |-> TRUE, rows |-> <<>>]

DataFrame(rows) == [none |-> FALSE, rows |-> rows]

Job(search_term) == [search_term |-> search_term]

\* the job data a run may find in its CSV file: unreadable (df stays None),
\* no record, or records whose search_term is a title or missing
Datasets ==
    << None,
       DataFrame(<<>>),
       DataFrame(<<Job(TitleDataScientist), Job(TitleProductManager),
                   Job(TitleDataScientist)>>),
       DataFrame(<<Job(TitleSeniorDevOps), Job(NaN),
                   Job(TitleAnalystScientist)>>),
       DataFrame(<<Job(TitleNurse)>>),
       DataFrame(<<Job(NaN), Job(TitleProductManager)>>) >>

\* how many of the datasets are tried
NumDatasets == 5

\* ------------------------------------------------------------------------
\* The job collectors.  A credential is TRUE when its environment variable is
\* set to a non-empty string, FALSE when os.getenv returned None or ''.
\* ------------------------------------------------------------------------
Collector(class, adzuna_app_id, adzuna_app_key, rapidapi_key, jobs_data) ==
    [class          |-> class,
     adzuna_app_id  |-> adzuna_app_id,
     adzuna_app_key |-> adzuna_app_key,
     rapidapi_key   |-> rapidapi_key,
     jobs_data      |-> jobs_data]

\* no collector was constructed
NoCollector == Collector("NoneType", FALSE, FALSE, FALSE, <<>>)

\* the collectors after __init__: jobs_data = [], the keys as the environment
\* has them (app_id and app_key are the Adzuna keys of AdzunaJobCollector)
NewCollectors ==
    {Collector("AdzunaJobCollector", k, k, FALSE, <<>>) : k \in BOOLEAN}
    \cup {Collector("DualAPIJobCollector", c[1], c[2], c[3], <<>>) :
            c \in {<<TRUE, TRUE, TRUE>>, <<TRUE, TRUE, FALSE>>,
                   <<FALSE, TRUE, TRUE>>, <<TRUE, FALSE, TRUE>>,
                   <<TRUE, FALSE, FALSE>>, <<FALSE, FALSE, FALSE>>}}

\* the job titles and locations searched for
SearchTitles == {"Data Scientist", "DevOps Engineer"}

SearchLocations == {"Remote"}

\* values of the parameter max_results
MaxResultsValues == {1, 2}

\* the most results a response carries
MaxResponse == 3

\* the most records jobs_data is followed to
MaxJobsData == 3

\* the results of a response: "ok" for a job whose fields are strings, "bad"
\* for one with a null title, on which .strip() raises
ResultLists ==
    UNION {[1..n -> {"ok", "bad"}] : n \in 0..MaxResponse}

\* what requests.get, raise_for_status and response.json() come to: a
\* RequestException (no connection, error status) or the decoded body
Responses ==
    {[kind |-> "RequestException", results |-> <<>>]}
    \cup {[kind |-> "json", results |-> r] : r \in ResultLists}

\* no request was issued
NoRequest == [kind |-> "no request", results |-> <<>>]

\* the arguments of a search and the response its request met
SearchCall(job_title, location, max_results, response) ==
    [job_title   |-> job_title,
     location    |-> location,
     max_results |-> max_results,
     response    |-> response]

\* processed_job: the fields that tell the records apart
ProcessedJob(source, job_title, location) ==
    [source          |-> source,
     search_term     |-> job_title,
     search_location |-> location]

RECURSIVE ProcessedJobs(_, _, _, _, _)
\* processed_jobs once the loop has gone through the first n jobs: a job
\* whose processing raises is skipped
ProcessedJobs(jobs, n, source, job_title, location) ==
    IF n = 0 THEN <<>>
    ELSE IF jobs[n] = "ok"
         THEN Append(ProcessedJobs(jobs, n - 1, source, job_title, location),
                     ProcessedJob(source, job_title, location))
         ELSE ProcessedJobs(jobs, n - 1, source, job_title, location)

\* jobs[:max_results] for max_results >= 0
Truncate(jobs, max_results) ==
    SubSeq(jobs, 1, IF Len(jobs) < max_results THEN Len(jobs) ELSE max_results)

\* init_analyzers of the dashboard returns an AutomationRiskAnalyzer, or a
\* MockAnalyzer when the constructor raised (its os.makedirs can)
AnalyzerClasses == {"AutomationRiskAnalyzer", "MockAnalyzer"}

\* a run of the analysis scripts or of the dashboard: a job file, an
\* analyzer for the dashboard, no collector
AnalysisRun ==
    /\ \E d \in 1..NumDatasets : market_df = Datasets[d]
    /\ risk_analyzer \in AnalyzerClasses
    /\ collector = NoCollector

\* a run of a collector script: a new collector, no job file loaded
CollectionRun ==
    /\ market_df = None
    /\ risk_analyzer = "AutomationRiskAnalyzer"
    /\ collector \in NewCollectors

\* AutomationRiskAnalyzer.__init__, IntegratedWorkShiftAnalysis.__init__,
\* init_analyzers, AdzunaJobCollector.__init__, DualAPIJobCollector.__init__
Init ==
    /\ role_risk_profiles = InitialRoleRiskProfiles
    /\ risk_factors = InitialRiskFactors
    /\ integrated_df = None
    /\ AnalysisRun \/ CollectionRun
    /\ ret = Idle

\* the call with the score written back into the profile it came from
CalculateAutomationRiskStoring ==
    /\ ret.op = "idle"
    /\ collector.class = "NoneType"
    /\ \E role \in DictKeys(role_risk_profiles) \cup UnknownLabels :
       \E score \in {calculate_automation_risk(role)} :
          /\ ret' = Returned("calculate_automation_risk", role, score)
          /\ role_risk_profiles' =
                [i \in 1..Len(role_risk_profiles) |->
                    IF role_risk_profiles[i].key = role
                    THEN [role_risk_profiles[i]
                             EXCEPT !.val.base_risk = score]
                    ELSE role_risk_profiles[i]]
    /\ UNCHANGED <<risk_factors, market_df, integrated_df, risk_analyzer,
                   collector>>

CalculateAutomationRisk ==
    /\ ret.op = "idle"
    /\ collector.class = "NoneType"
    /\ \E role \in DictKeys(role_risk_profiles) \cup UnknownLabels :
          ret' = Returned("calculate_automation_risk", role,
                          calculate_automation_risk(role))
    /\ UNCHANGED <<role_risk_profiles, risk_factors, market_df, integrated_df,
                 risk_analyzer, collector>>

GetRiskLevel ==
    /\ ret.op = "idle"
    /\ collector.class = "NoneType"
    /\ \E n \in ProbeDecimals :
       \E score \in {FromDecimal(n)} :
          ret' = Returned("get_risk_level", n, get_risk_level(score))
    /\ UNCHANGED <<role_risk_profiles, risk_factors, market_df, integrated_df,
                 risk_analyzer, collector>>

MapToRiskCategory ==
    /\ ret.op = "idle"
    /\ collector.class = "NoneType"
    /\ \E job_title \in JobTitles :
       \E r \in {map_to_risk_category(job_title)} :
          ret' = IF r.raised
                 THEN Raised("map_to_risk_category", job_title, r.val)
                 ELSE Returned("map_to_risk_category", job_title, r.val)
    /\ UNCHANGED <<role_risk_profiles, risk_factors, market_df, integrated_df,
                 risk_analyzer, collector>>

\* the keys of a dict in insertion order
DictKeySeq(d) == [i \in 1..Len(d) |-> d[i].key]

\* the row analyze_risk_by_role appends to risk_data for an item of the table
AnalysisRow(item) ==
    LET role    == item.key
        profile == item.val
    IN  CHOOSE row \in
            {[Role                     |-> role,
              Risk_Score               |-> risk_score,
              Risk_Level               |-> get_risk_level(risk_score),
              Routine_Tasks            |-> profile.routine_tasks,
              Human_Interaction        |-> profile.human_interaction,
              Creative_Problem_Solving |-> profile.creative_problem_solving] :
             risk_score \in {calculate_automation_risk(role)}} : TRUE

RECURSIVE AnalysisRows(_)
\* risk_data once the loop has gone through the first n items of the table
AnalysisRows(n) ==
    IF n = 0 THEN <<>>
    ELSE Append(AnalysisRows(n - 1), AnalysisRow(role_risk_profiles[n]))

\* the column 'Risk Score' of a frame
RiskScoreColumn(rows) == [i \in 1..Len(rows) |-> rows[i].Risk_Score]

\* analyze_risk_by_role returns risk_df: the rows sorted by Risk Score,
\* descending
AnalyzeRiskByRole ==
    /\ ret.op = "idle"
    /\ collector.class = "NoneType"
    /\ \E risk_data \in {AnalysisRows(Len(role_risk_profiles))} :
       \E keys \in {RiskScoreColumn(risk_data)} :
       \E order \in ArgSorts(keys, 1..Len(risk_data), FALSE) :
          ret' = Returned("analyze_risk_by_role", <<>>,
                          Take(risk_data, order))
    /\ UNCHANGED <<role_risk_profiles, risk_factors, market_df, integrated_df,
                 risk_analyzer, collector>>

\* the list comprehension of generate_risk_report: the score is computed
\* once for the column and once more for the level
ReportRow(item) ==
    LET role == item.key
    IN  CHOOSE row \in
            {[Role       |-> role,
              Risk_Score |-> score,
              Risk_Level |-> get_risk_level(again)] :
             score \in {calculate_automation_risk(role)},
             again \in {calculate_automation_risk(role)}} : TRUE

RECURSIVE ReportRows(_)
\* the list of the comprehension over the first n roles of the table
ReportRows(n) ==
    IF n = 0 THEN <<>>
    ELSE Append(ReportRows(n - 1), ReportRow(role_risk_profiles[n]))

\* a line of the rankings, f"{Role:25} | Risk: {Risk Score:.2f} ({Risk Level})"
ReportLine(row) ==
    [Role       |-> row.Role,
     Risk       |-> Format2f(row.Risk_Score),
     Risk_Level |-> row.Risk_Level]

\* generate_risk_report writes the rows, sorted by Risk Score descending, as
\* the lines of the report file
GenerateRiskReport ==
    /\ ret.op = "idle"
    /\ collector.class = "NoneType"
    /\ \E rows \in {ReportRows(Len(role_risk_profiles))} :
       \E keys \in {RiskScoreColumn(rows)} :
       \E order \in ArgSorts(keys, 1..Len(rows), FALSE) :
          ret' = Returned("generate_risk_report", <<>>,
                          [k \in 1..Len(rows) |-> ReportLine(rows[order[k]])])
    /\ UNCHANGED <<role_risk_profiles, risk_factors, market_df, integrated_df,
                 risk_analyzer, collector>>

\* the row export_risk_data appends to risk_data for an item of the table
ExportRow(item) ==
    LET role    == item.key
        profile == item.val
    IN  CHOOSE row \in
            {[role                     |-> role,
              automation_risk_score    |-> risk_score,
              risk_level               |-> get_risk_level(risk_score),
              routine_tasks            |-> profile.routine_tasks,
              human_interaction        |-> profile.human_interaction,
              creative_problem_solving |-> profile.creative_problem_solving,
              technical_complexity     |-> profile.technical_complexity] :
             risk_score \in {calculate_automation_risk(role)}} : TRUE

RECURSIVE ExportRows(_)
\* risk_data once the loop has gone through the first n items of the table
ExportRows(n) ==
    IF n = 0 THEN <<>>
    ELSE Append(ExportRows(n - 1), ExportRow(role_risk_profiles[n]))

\* the export that also drops the last role from the table
ExportRiskDataPopping ==
    /\ ret.op = "idle"
    /\ collector.class = "NoneType"
    /\ ret' = Returned("export_risk_data", <<>>,
                       ExportRows(Len(role_risk_profiles)))
    /\ role_risk_profiles' =
          SubSeq(role_risk_profiles, 1, Len(role_risk_profiles) - 1)
    /\ UNCHANGED <<risk_factors, market_df, integrated_df, risk_analyzer,
                   collector>>

\* export_risk_data writes and returns the rows as they are, unsorted
ExportRiskData ==
    /\ ret.op = "idle"
    /\ collector.class = "NoneType"
    /\ ret' = Returned("export_risk_data", <<>>,
                       ExportRows(Len(role_risk_profiles)))
    /\ UNCHANGED <<role_risk_profiles, risk_factors, market_df, integrated_df,
                 risk_analyzer, collector>>

\* the entry create_integrated_dataset puts into the dict risk_scores for a
\* role of the table: its score and its level
RiskScoresItem(item) ==
    LET role == item.key
    IN  CHOOSE entry \in
            {[key |-> role,
              val |-> [automation_risk_score |-> score,
                       risk_level            |-> get_risk_level(again)]] :
             score \in {calculate_automation_risk(role)},
             again \in {calculate_automation_risk(role)}} : TRUE

RECURSIVE RiskScores(_)
\* risk_scores once the loop has gone through the first n roles of the table
RiskScores(n) ==
    IF n = 0 THEN <<>>
    ELSE Append(RiskScores(n - 1), RiskScoresItem(role_risk_profiles[n]))

\* the row whose lookups in risk_scores all fall to their defaults
IntegratedRowDefaults(job, risk_scores) ==
    [search_term           |-> job.search_term,
     risk_category         |-> integrated_map_to_risk_category(job.search_term),
     automation_risk_score |-> FHalf,
     risk_level            |-> "Medium"]

\* a row of market_df with the three columns create_integrated_dataset adds;
\* risk_scores.get(x, {}).get(column, default) for a category without entry
IntegratedRow(job, risk_scores) ==
    CHOOSE row \in
        {[search_term   |-> job.search_term,
          risk_category |-> x,
          automation_risk_score |->
              IF x \in DictKeys(risk_scores)
              THEN DictGet(risk_scores, x).automation_risk_score
              ELSE FHalf,
          risk_level |->
              IF x \in DictKeys(risk_scores)
              THEN DictGet(risk_scores, x).risk_level
              ELSE "Medium"] :
         x \in {integrated_map_to_risk_category(job.search_term)}} : TRUE

RECURSIVE IntegratedRows(_, _, _)
\* the first n rows of the copy of market_df, with their new columns
IntegratedRows(jobs, risk_scores, n) ==
    IF n = 0 THEN <<>>
    ELSE Append(IntegratedRows(jobs, risk_scores, n - 1),
                IntegratedRow(jobs[n], risk_scores))

\* create_integrated_dataset: self.market_analyzer.df.copy() raises when no
\* data was loaded; else the copy with its new columns becomes integrated_df
CreateIntegratedDataset ==
    /\ ret.op = "idle"
    /\ collector.class = "NoneType"
    /\ IF market_df.none
       THEN /\ ret' = Raised("create_integrated_dataset", <<>>,
                             "AttributeError")
            /\ UNCHANGED integrated_df
       ELSE \E risk_scores \in {RiskScores(Len(role_risk_profiles))} :
            \E rows \in {IntegratedRows(market_df.rows, risk_scores,
                                        Len(market_df.rows))} :
               /\ integrated_df' = DataFrame(rows)
               /\ ret' = Returned("create_integrated_dataset", <<>>, rows)
    /\ UNCHANGED <<role_risk_profiles, risk_factors, market_df, risk_analyzer,
                   collector>>

\* the row export_integrated_insights appends to summary_data for a role
\* (its salary, location, company and remote columns are left out)
SummaryRow(role, records) ==
    CHOOSE row \in
        {[Role                  |-> role,
          Automation_Risk_Score |-> score,
          Risk_Level            |-> get_risk_level(again),
          Job_Count |->
              Cardinality({i \in 1..Len(records) :
                              records[i].risk_category = role})] :
         score \in {calculate_automation_risk(role)},
         again \in {calculate_automation_risk(role)}} : TRUE

RECURSIVE SummaryData(_, _)
\* summary_data once the loop has gone through the first n roles of the
\* table: a row for every role that some record of integrated_df falls under
SummaryData(records, n) ==
    IF n = 0 THEN <<>>
    ELSE LET role == role_risk_profiles[n].key
         IN  IF \E i \in 1..Len(records) : records[i].risk_category = role
             THEN Append(SummaryData(records, n - 1),
                         SummaryRow(role, records))
             ELSE SummaryData(records, n - 1)

\* the column 'Automation_Risk_Score' of a frame
AutomationRiskScoreColumn(rows) ==
    [i \in 1..Len(rows) |-> rows[i].Automation_Risk_Score]

\* export_integrated_insights: subscripting integrated_df raises TypeError
\* while it is None; sort_values raises KeyError on the frame of no row,
\* which has no column; else the summary sorted by score, ascending
ExportIntegratedInsights ==
    /\ ret.op = "idle"
    /\ collector.class = "NoneType"
    /\ IF integrated_df.none
       THEN ret' = Raised("export_integrated_insights", <<>>, "TypeError")
       ELSE \E summary_data \in {SummaryData(integrated_df.rows,
                                             Len(role_risk_profiles))} :
               IF summary_data = <<>>
               THEN ret' = Raised("export_integrated_insights", <<>>,
                                  "KeyError")
               ELSE \E keys \in {AutomationRiskScoreColumn(summary_data)} :
                    \E order \in ArgSorts(keys, 1..Len(summary_data), TRUE) :
                       ret' = Returned("export_integrated_insights", <<>>,
                                       Take(summary_data, order))
    /\ UNCHANGED <<role_risk_profiles, risk_factors, market_df, integrated_df,
                 risk_analyzer, collector>>

\* ------------------------------------------------------------------------
\* run_integrated_analysis: the steps of its try block
\* ------------------------------------------------------------------------
Steps ==
    <<"create_integrated_dataset", "analyze_salary_vs_risk",
      "analyze_market_demand_vs_risk", "analyze_location_risk_patterns",
      "generate_strategic_insights", "create_integrated_dashboard",
      "export_integrated_insights">>

StepRun(n, raised) == [step |-> Steps[n], raised |-> raised]

RECURSIVE TryEachStep(_, _, _)
\* every step in a try block of its own: a step that raises is logged and
\* the next one runs
TryEachStep(raises, n, log) ==
    IF n > Len(Steps)
    THEN [steps |-> log,
          caught |-> IF \E k \in 1..Len(log) : log[k].raised
                     THEN "Exception" ELSE "None"]
    ELSE TryEachStep(raises, n + 1, Append(log, StepRun(n, raises[n])))

RECURSIVE TrySteps(_, _, _)
\* the try block from step n on, log being the steps run so far: the first
\* step that raises ends the block, and 'except Exception' catches and prints
\* what it raised
TrySteps(raises, n, log) ==
    IF n > Len(Steps) THEN [steps |-> log, caught |-> "None"]
    ELSE IF raises[n]
         THEN [steps |-> Append(log, StepRun(n, TRUE)),
               caught |-> "Exception"]
    ELSE TrySteps(raises, n + 1, Append(log, StepRun(n, FALSE)))

\* run_integrated_analysis.  create_integrated_dataset raises when there is
\* no job data (the constructor returned early, or the file could not be
\* read) and else sets integrated_df; export_integrated_insights raises when
\* its summary has no row; the steps between them depend on columns that
\* are not modelled and may complete or raise
RunIntegratedAnalysis ==
    /\ ret.op = "idle"
    /\ collector.class = "NoneType"
    /\ IF market_df.none
       THEN /\ \E raises \in {[n \in 1..Len(Steps) |-> n = 1]} :
               \E run \in {TrySteps(raises, 1, <<>>)} :
                  ret' = Returned("run_integrated_analysis", <<>>, run)
            /\ UNCHANGED integrated_df
       ELSE \E risk_scores \in {RiskScores(Len(role_risk_profiles))} :
            \E rows \in {IntegratedRows(market_df.rows, risk_scores,
                                        Len(market_df.rows))} :
            \E no_summary \in {\A i \in 1..Len(rows) :
                                  \A k \in 1..Len(role_risk_profiles) :
                                     rows[i].risk_category
                                        # role_risk_profiles[k].key},
               middle \in [2..(Len(Steps) - 1) -> BOOLEAN] :
            \E raises \in {[n \in 1..Len(Steps) |->
                              IF n = 1 THEN FALSE
                              ELSE IF n = Len(Steps) THEN no_summary
                              ELSE middle[n]]} :
            \E run \in {TrySteps(raises, 1, <<>>)} :
               /\ integrated_df' = DataFrame(rows)
               /\ ret' = Returned("run_integrated_analysis", <<>>, run)
    /\ UNCHANGED <<role_risk_profiles, risk_factors, market_df, risk_analyzer,
                   collector>>

\* ------------------------------------------------------------------------
\* scripts/data_cleaning.py: merge_datasets
\* ------------------------------------------------------------------------
\* a missing automation_risk_score
FNaN == [nan |-> TRUE]

\* astype(str): a missing title becomes the string 'nan'
AsStr(title) == IF title = NaN THEN <<"n", "a", "n">> ELSE title

RECURSIVE LStrip(_)
\* str.lstrip
LStrip(s) == IF s # <<>> /\ s[1] = " " THEN LStrip(Tail(s)) ELSE s

RECURSIVE RStrip(_)
\* str.rstrip
RStrip(s) ==
    IF s # <<>> /\ s[Len(s)] = " " THEN RStrip(SubSeq(s, 1, Len(s) - 1))
    ELSE s

\* .astype(str).str.strip().str.lower()
NormalizedTitle(title) == StrLower(RStrip(LStrip(AsStr(title))))

RECURSIVE NormalizedTitles(_, _)
\* the first n rows of a dataframe after its job_title column is normalized
NormalizedTitles(df, n) ==
    IF n = 0 THEN <<>>
    ELSE Append(NormalizedTitles(df, n - 1),
                [df[n] EXCEPT !.job_title = NormalizedTitle(@)])

RECURSIVE MatchedRows(_, _, _)
\* a demand row joined with those of the first n risk rows that have its
\* job_title
MatchedRows(row, risk_df, n) ==
    IF n = 0 THEN <<>>
    ELSE IF risk_df[n].job_title = row.job_title
         THEN Append(MatchedRows(row, risk_df, n - 1),
                     [job_title |-> row.job_title,
                      openings  |-> row.openings,
                      automation_risk_score |->
                          risk_df[n].automation_risk_score])
         ELSE MatchedRows(row, risk_df, n - 1)

\* how='inner': a demand row without a match gives no row
InnerRows(row, risk_df) == MatchedRows(row, risk_df, Len(risk_df))

\* how='left': a demand row without a match gives one row whose risk columns
\* are missing
LeftRows(row, risk_df) ==
    IF MatchedRows(row, risk_df, Len(risk_df)) = <<>>
    THEN <<[job_title |-> row.job_title,
            openings  |-> row.openings,
            automation_risk_score |-> FNaN]>>
    ELSE MatchedRows(row, risk_df, Len(risk_df))

RECURSIVE Merge(_, _, _)
\* pd.merge(demand_df, risk_df, on='job_title', how='left'), the first n
\* demand rows
Merge(demand_df, risk_df, n) ==
    IF n = 0 THEN <<>>
    ELSE Merge(demand_df, risk_df, n - 1) \o LeftRows(demand_df[n], risk_df)

RECURSIVE FillNa(_, _)
\* merged['automation_risk_score'].fillna(0.5), the first n rows
FillNa(merged, n) ==
    IF n = 0 THEN <<>>
    ELSE Append(FillNa(merged, n - 1),
                IF merged[n].automation_risk_score = FNaN
                THEN [merged[n] EXCEPT
                         !.automation_risk_score = FromDecimal(5000)]
                ELSE merged[n])

merge_datasets(demand_df, risk_df) ==
    CHOOSE filled \in
        {FillNa(merged, Len(merged)) :
            merged \in {Merge(NormalizedTitles(demand_df, Len(demand_df)),
                              NormalizedTitles(risk_df, Len(risk_df)),
                              Len(demand_df))}} : TRUE

DemandRow(job_title, openings) ==
    [job_title |-> job_title, openings |-> openings]

RiskRow(job_title, automation_risk_score) ==
    [job_title |-> job_title, automation_risk_score |-> automation_risk_score]

\* demand data: titles with blanks around them and in mixed case, a title
\* the reference lacks, a missing title
DemandFrames ==
    {<<>>,
     <<DemandRow(<<" ", "N", "u", "r", "s", "e">>, 1),
       DemandRow(<<"C", "h", "e", "f", " ">>, 2),
       DemandRow(TitleDataScientist, 3)>>,
     <<DemandRow(NaN, 1), DemandRow(TitleNurse, 2)>>}

\* risk references: none, one with a title twice and a missing score, one
\* with a missing title
RiskFrames ==
    {<<>>,
     <<RiskRow(<<"N", "U", "R", "S", "E", " ">>, FromDecimal(2000)),
       RiskRow(TitleNurse, FNaN),
       RiskRow(TitleDataScientist, FromDecimal(8500))>>,
     <<RiskRow(NaN, FromDecimal(9000))>>}

\* merge_datasets(demand_df, risk_df)
MergeDatasets ==
    /\ ret.op = "idle"
    /\ collector.class = "NoneType"
    /\ \E demand_df \in DemandFrames, risk_df \in RiskFrames :
       \E merged \in {merge_datasets(demand_df, risk_df)} :
          ret' = Returned("merge_datasets",
                          [demand_df |-> demand_df, risk_df |-> risk_df],
                          merged)
    /\ UNCHANGED <<role_risk_profiles, risk_factors, market_df, integrated_df,
                   risk_analyzer, collector>>

\* ------------------------------------------------------------------------
\* scripts/job_market_analysis.py: JobMarketAnalyzer
\* ------------------------------------------------------------------------
\* the methods class JobMarketAnalyzer defines
JobMarketAnalyzerMethods ==
    {"__init__", "load_data", "clean_data", "basic_statistics",
     "analyze_job_demand", "analyze_salaries", "analyze_companies",
     "analyze_remote_work", "create_visualizations", "generate_insights",
     "generate_report", "run_complete_analysis"}

RECURSIVE DropDuplicates(_, _)
\* df.drop_duplicates(), the first n rows: a row equal to an earlier one goes
DropDuplicates(rows, n) ==
    IF n = 0 THEN <<>>
    ELSE IF \E m \in 1..(n - 1) : rows[m] = rows[n]
         THEN DropDuplicates(rows, n - 1)
         ELSE Append(DropDuplicates(rows, n - 1), rows[n])

\* clean_data: the cleaning of the columns, then the look-up of
\* self.map_to_risk_category, which raises AttributeError for a method the
\* class does not define, before any risk_category is set
clean_data(rows) ==
    IF "map_to_risk_category" \in JobMarketAnalyzerMethods
    THEN [raised |-> FALSE, exception |-> "",
          rows   |-> DropDuplicates(rows, Len(rows))]
    ELSE [raised |-> TRUE, exception |-> "AttributeError",
          rows   |-> DropDuplicates(rows, Len(rows))]

\* JobMarketAnalyzer(csv_file_path) over the job file of the run: load_data
\* reads it, calls clean_data and catches whatever either raises, so that
\* the constructor returns in every case
JobMarketAnalyzerInit ==
    /\ ret.op = "idle"
    /\ collector.class = "NoneType"
    /\ IF market_df.none
       THEN ret' = Returned("JobMarketAnalyzer", market_df,
                            [df |-> None, caught |-> "FileNotFoundError",
                             clean_data_completed |-> FALSE])
       ELSE \E cleaned \in {clean_data(market_df.rows)} :
               ret' = Returned("JobMarketAnalyzer", market_df,
                               [df |-> DataFrame(cleaned.rows),
                                caught |-> cleaned.exception,
                                clean_data_completed |-> ~cleaned.raised])
    /\ UNCHANGED <<role_risk_profiles, risk_factors, market_df, integrated_df,
                   risk_analyzer, collector>>

\* ------------------------------------------------------------------------
\* The dashboard: its fallback analyzer and the two tabs that score roles
\* ------------------------------------------------------------------------
MockProfile(ars, rt, hi, cps, tc) ==
    [automation_risk_score    |-> FromDecimal(ars),
     routine_tasks            |-> FromDecimal(rt),
     human_interaction        |-> FromDecimal(hi),
     creative_problem_solving |-> FromDecimal(cps),
     technical_complexity     |-> FromDecimal(tc)]

\* MockAnalyzer.role_risk_profiles
MockRoleRiskProfiles ==
    << [key |-> "Software Engineer",
        val |-> MockProfile(2500, 4000, 5000, 8000, 8500)],
       [key |-> "Data Scientist",
        val |-> MockProfile(2000, 3500, 4500, 9000, 9000)],
       [key |-> "Product Manager",
        val |-> MockProfile(1500, 3000, 9000, 8500, 5000)],
       [key |-> "DevOps Engineer",
        val |-> MockProfile(4500, 6500, 4000, 6000, 9000)],
       [key |-> "Machine Learning Engineer",
        val |-> MockProfile(2500, 4000, 3500, 8500, 9500)],
       [key |-> "Data Analyst",
        val |-> MockProfile(5500, 6000, 4000, 5000, 6000)],
       [key |-> "Frontend Developer",
        val |-> MockProfile(3500, 5000, 5000, 7000, 7000)],
       [key |-> "Backend Developer",
        val |-> MockProfile(4000, 5500, 3500, 6500, 8000)] >>

\* MockAnalyzer.calculate_automation_risk:
\* self.role_risk_profiles.get(role, {}).get('automation_risk_score', 0.5)
MockCalculateAutomationRisk(role) ==
    IF role \in DictKeys(MockRoleRiskProfiles)
    THEN DictGet(MockRoleRiskProfiles, role).automation_risk_score
    ELSE FHalf

\* MockAnalyzer.get_risk_level
MockGetRiskLevel(score) ==
    IF FGe(score, FromDecimal(7000)) THEN "Very High"
    ELSE IF FGe(score, FromDecimal(5000)) THEN "High"
    ELSE IF FGe(score, FromDecimal(3000)) THEN "Medium"
    ELSE IF FGe(score, FromDecimal(1500)) THEN "Low"
    ELSE "Very Low"

\* the role table of the analyzer the dashboard holds
DashboardProfiles ==
    IF risk_analyzer = "MockAnalyzer" THEN MockRoleRiskProfiles
    ELSE role_risk_profiles

\* risk_analyzer.calculate_automation_risk(role)
DashboardScore(role) ==
    IF risk_analyzer = "MockAnalyzer" THEN MockCalculateAutomationRisk(role)
    ELSE calculate_automation_risk(role)

\* risk_analyzer.get_risk_level(score)
DashboardLevel(score) ==
    IF risk_analyzer = "MockAnalyzer" THEN MockGetRiskLevel(score)
    ELSE get_risk_level(score)

\* values of the column 'title' of the job file the dashboard loads: the
\* titles of job advertisements
DashboardTitles ==
    {"Data Scientist", "Senior Data Scientist", "Registered Nurse",
     "software engineer", "Data Entry"}

\* the titles df['title'].value_counts().head(20).index may list
TitleIndexes ==
    { <<>>,
      <<"Senior Data Scientist", "Data Scientist">>,
      <<"Registered Nurse", "Data Entry", "software engineer">> }

\* the score and the level a tab works out for a title
Assessment(role) ==
    CHOOSE a \in {[role |-> role, score |-> score,
                   level |-> DashboardLevel(score)] :
                  score \in {DashboardScore(role)}} : TRUE

RECURSIVE RiskDist(_, _)
\* tab1, Risk Distribution: the loop over the first n titles of the index
RiskDist(index, n) ==
    IF n = 0 THEN <<>>
    ELSE Append(RiskDist(index, n - 1), Assessment(index[n]))

\* tab1 scores and classifies the most frequent titles of the job file
Tab1RiskDistribution ==
    /\ ret.op = "idle"
    /\ collector.class = "NoneType"
    /\ \E index \in TitleIndexes :
          ret' = Returned("tab1_risk_distribution", index,
                          RiskDist(index, Len(index)))
    /\ UNCHANGED <<role_risk_profiles, risk_factors, market_df, integrated_df,
                   risk_analyzer, collector>>

\* tab4 scores and classifies the title picked in the select box
Tab4RiskAssessment ==
    /\ ret.op = "idle"
    /\ collector.class = "NoneType"
    /\ \E selected_role \in DashboardTitles :
          ret' = Returned("tab4_risk_assessment", selected_role,
                          Assessment(selected_role))
    /\ UNCHANGED <<role_risk_profiles, risk_factors, market_df, integrated_df,
                   risk_analyzer, collector>>

\* ------------------------------------------------------------------------
\* The searches of the job collectors
\* ------------------------------------------------------------------------
\* the variables of the analysis, which a collection run leaves alone
analysis_vars ==
    <<role_risk_profiles, risk_factors, market_df, integrated_df,
      risk_analyzer>>

\* a search that puts what it found in the place of jobs_data
CollectedReplacing(op, call, processed_jobs) ==
    /\ Len(collector.jobs_data) + Len(processed_jobs) <= MaxJobsData
    /\ collector' = [collector EXCEPT !.jobs_data = processed_jobs]
    /\ ret' = Returned(op, call, processed_jobs)

\* the end of a search: the records are appended to jobs_data one by one as
\* they are processed, and returned
Collected(op, call, processed_jobs) ==
    /\ Len(collector.jobs_data) + Len(processed_jobs) <= MaxJobsData
    /\ collector' = [collector EXCEPT !.jobs_data = @ \o processed_jobs]
    /\ ret' = Returned(op, call, processed_jobs)

\* AdzunaJobCollector.search_jobs: max_results is sent to the API as
\* results_per_page; every job of the response is processed
SearchJobs ==
    /\ ret.op = "idle"
    /\ collector.class = "AdzunaJobCollector"
    /\ \E job_title \in SearchTitles, location \in SearchLocations,
          max_results \in MaxResultsValues, response \in Responses :
          Collected("search_jobs",
                    SearchCall(job_title, location, max_results, response),
                    ProcessedJobs(response.results, Len(response.results),
                                  "adzuna", job_title, location))
    /\ UNCHANGED analysis_vars

\* DualAPIJobCollector.search_adzuna_jobs: skipped without the Adzuna keys;
\* else as search_jobs
SearchAdzunaJobs ==
    /\ ret.op = "idle"
    /\ collector.class = "DualAPIJobCollector"
    /\ \E job_title \in SearchTitles, location \in SearchLocations,
          max_results \in MaxResultsValues :
          IF ~collector.adzuna_app_id \/ ~collector.adzuna_app_key
          THEN Collected("search_adzuna_jobs",
                         SearchCall(job_title, location, max_results,
                                    NoRequest),
                         <<>>)
          ELSE \E response \in Responses :
                  Collected("search_adzuna_jobs",
                            SearchCall(job_title, location, max_results,
                                       response),
                            ProcessedJobs(response.results,
                                          Len(response.results),
                                          "adzuna", job_title, location))
    /\ UNCHANGED analysis_vars

\* DualAPIJobCollector.search_rapidapi_jobs: skipped without the RapidAPI
\* key; else the first max_results jobs of the response are processed
SearchRapidapiJobs ==
    /\ ret.op = "idle"
    /\ collector.class = "DualAPIJobCollector"
    /\ \E job_title \in SearchTitles, location \in SearchLocations,
          max_results \in MaxResultsValues :
          IF ~collector.rapidapi_key
          THEN Collected("search_rapidapi_jobs",
                         SearchCall(job_title, location, max_results,
                                    NoRequest),
                         <<>>)
          ELSE \E response \in Responses :
               \E jobs \in {Truncate(response.results, max_results)} :
                  Collected("search_rapidapi_jobs",
                            SearchCall(job_title, location, max_results,
                                       response),
                            ProcessedJobs(jobs, Len(jobs), "rapidapi_jsearch",
                                          job_title, location))
    /\ UNCHANGED analysis_vars

\* ------------------------------------------------------------------------
\* collect_comprehensive_data and main of the collectors.  The call in
\* progress holds its local variables; one step is one pass of the inner loop.
\* ------------------------------------------------------------------------
\* job_titles of collect_comprehensive_data: the list of DualAPIJobCollector;
\* the list of AdzunaJobCollector is its first ten
JobTitlesList ==
    <<"Software Engineer", "Data Scientist", "Product Manager",
      "DevOps Engineer", "Machine Learning Engineer", "Frontend Developer",
      "Backend Developer", "Full Stack Developer", "Data Analyst",
      "Software Developer", "Cloud Engineer", "Security Engineer">>

\* locations of collect_comprehensive_data
LocationsList ==
    <<"San Francisco, CA", "New York, NY", "Seattle, WA", "Austin, TX",
      "Boston, MA", "Los Angeles, CA", "Chicago, IL", "Denver, CO">>

\* how many of the job titles and of the locations a run goes through
NumTitles == 2

NumLocations == 2

\* how many jobs a collection is let to gather
MaxCollected == 2

\* max_per_source of the searches of DualAPIJobCollector
MaxPerSource == 15

\* the responses a pass of the collection is run against: a failed request,
\* no result, one result, and a result whose processing raises before one
\* whose processing does not
LoopResponses ==
    {[kind |-> "RequestException", results |-> <<>>],
     [kind |-> "json", results |-> <<>>],
     [kind |-> "json", results |-> <<"ok">>],
     [kind |-> "json", results |-> <<"bad", "ok">>]}

\* the responses the Adzuna request of a pass can meet: none is issued by a
\* DualAPIJobCollector without the Adzuna keys
AdzunaResponses ==
    IF collector.class = "DualAPIJobCollector"
       /\ (~collector.adzuna_app_id \/ ~collector.adzuna_app_key)
    THEN {NoRequest}
    ELSE LoopResponses

\* the responses the RapidAPI request of a pass can meet: AdzunaJobCollector
\* issues none, nor does a DualAPIJobCollector without the RapidAPI key
RapidapiResponses ==
    IF collector.class = "DualAPIJobCollector" /\ collector.rapidapi_key
    THEN LoopResponses
    ELSE {NoRequest}

\* what search_jobs and search_adzuna_jobs return for a response
AdzunaJobs(job_title, location, response) ==
    ProcessedJobs(response.results, Len(response.results), "adzuna",
                  job_title, location)

\* what search_rapidapi_jobs returns for a response
RapidapiJobs(job_title, location, max_results, response) ==
    ProcessedJobs(Truncate(response.results, max_results),
                  Len(Truncate(response.results, max_results)),
                  "rapidapi_jsearch", job_title, location)

\* the local variables of collect_comprehensive_data at the start: i and j
\* are the places of the two loops in job_titles and locations; searches
\* (the searches issued) and failed (the passes with a failed request) are
\* kept to state properties
StartFrame ==
    [i            |-> 1,
     j            |-> 1,
     search_count |-> 0,
     total_jobs   |-> 0,
     searches     |-> <<>>,
     failed       |-> 0]

InLoop(frame) ==
    [op |-> "collect_comprehensive_data.loop", arg |-> <<>>,
     raised |-> FALSE, val |-> frame]

\* the search a pass issues
Search(frame) ==
    [job_title |-> JobTitlesList[frame.i], location |-> LocationsList[frame.j]]

\* the locals after a pass whose failed request ends the loops
NextFrameStopping(frame, jobs_found, failed) ==
    [i            |-> IF failed THEN NumTitles + 1
                      ELSE IF frame.j = NumLocations THEN frame.i + 1
                      ELSE frame.i,
     j            |-> IF failed \/ frame.j = NumLocations THEN 1
                      ELSE frame.j + 1,
     search_count |-> frame.search_count + 1,
     total_jobs   |-> frame.total_jobs + jobs_found,
     searches     |-> Append(frame.searches, Search(frame)),
     failed       |-> IF failed THEN frame.failed + 1 ELSE frame.failed]

\* the locals after a pass that found jobs_found jobs: the inner loop goes
\* on with the next location and, after the last one, the outer loop with
\* the next job title, whether the request of the pass failed or not
NextFrame(frame, jobs_found, failed) ==
    [i            |-> IF frame.j = NumLocations THEN frame.i + 1 ELSE frame.i,
     j            |-> IF frame.j = NumLocations THEN 1 ELSE frame.j + 1,
     search_count |-> frame.search_count + 1,
     total_jobs   |-> frame.total_jobs + jobs_found,
     searches     |-> Append(frame.searches, Search(frame)),
     failed       |-> IF failed THEN frame.failed + 1 ELSE frame.failed]

\* one pass of the inner loop: search_jobs of AdzunaJobCollector, or
\* search_all_sources of DualAPIJobCollector, which searches Adzuna and then
\* RapidAPI and adds up what the two returned
CollectSearch ==
    /\ ret.op = "collect_comprehensive_data.loop"
    /\ ret.val.i <= NumTitles
    /\ \E job_title \in {JobTitlesList[ret.val.i]},
          location \in {LocationsList[ret.val.j]},
          adzuna \in AdzunaResponses, rapidapi \in RapidapiResponses :
       \E adzuna_jobs \in {AdzunaJobs(job_title, location, adzuna)},
          rapidapi_jobs \in {RapidapiJobs(job_title, location, MaxPerSource,
                                          rapidapi)} :
          /\ Len(collector.jobs_data) + Len(adzuna_jobs) + Len(rapidapi_jobs)
                <= MaxCollected
          /\ collector' = [collector EXCEPT
                              !.jobs_data = @ \o adzuna_jobs \o rapidapi_jobs]
          /\ ret' = InLoop(NextFrame(ret.val,
                                     Len(adzuna_jobs) + Len(rapidapi_jobs),
                                     "RequestException"
                                        \in {adzuna.kind, rapidapi.kind}))
    /\ UNCHANGED analysis_vars

\* the loops are through: return self.jobs_data to main
CollectReturn ==
    /\ ret.op = "collect_comprehensive_data.loop"
    /\ ret.val.i > NumTitles
    /\ ret' = Returned("collect_comprehensive_data", ret.val,
                       collector.jobs_data)
    /\ UNCHANGED collector
    /\ UNCHANGED analysis_vars

\* what main returned, the number of files it wrote, and the searches its
\* collection issued
MainResult(filename, files, searches) ==
    [filename |-> filename, files |-> files, searches |-> searches]

\* a main that starts the collection without looking at the keys
MainWithoutKeyTest ==
    /\ ret.op = "idle"
    /\ collector.class # "NoneType"
    /\ collector.jobs_data = <<>>
    /\ ret' = InLoop(StartFrame)
    /\ UNCHANGED collector
    /\ UNCHANGED analysis_vars

\* main, up to the collection.  It constructs a collector of its own, so
\* jobs_data is empty; it returns None when check_api_keys finds no key at
\* all (DualAPIJobCollector) or when app_id or app_key is missing
\* (AdzunaJobCollector), and else calls collect_comprehensive_data
Main ==
    /\ ret.op = "idle"
    /\ collector.class # "NoneType"
    /\ collector.jobs_data = <<>>
    /\ IF \/ /\ collector.class = "DualAPIJobCollector"
             /\ ~(collector.adzuna_app_id /\ collector.adzuna_app_key)
             /\ ~collector.rapidapi_key
          \/ /\ collector.class = "AdzunaJobCollector"
             /\ (~collector.adzuna_app_id \/ ~collector.adzuna_app_key)
       THEN ret' = Returned("main", <<>>, MainResult("None", 0, <<>>))
       ELSE ret' = InLoop(StartFrame)
    /\ UNCHANGED collector
    /\ UNCHANGED analysis_vars

\* main, after the collection: display_summary, then save_to_csv, which
\* writes no file and returns None when jobs_data is empty.  The collector
\* of main is gone when main returns: the next one starts empty
MainSave ==
    /\ ret.op = "collect_comprehensive_data"
    /\ ~ret.raised
    /\ ret' = Returned("main", <<>>,
                       IF collector.jobs_data = <<>>
                       THEN MainResult("None", 0, ret.arg.searches)
                       ELSE MainResult("jobs_<timestamp>.csv", 1,
                                       ret.arg.searches))
    /\ collector' = [collector EXCEPT !.jobs_data = <<>>]
    /\ UNCHANGED analysis_vars

\* the caller takes the result of a call that ended: results are transient,
\* nothing of a call stays behind but what it wrote to the attributes
Return ==
    /\ ret.op # "idle"
    /\ ret.op \notin {"collect_comprehensive_data.loop",
                     "collect_comprehensive_data"}
    /\ ret' = Idle
    /\ UNCHANGED <<role_risk_profiles, risk_factors, market_df, integrated_df,
                   risk_analyzer, collector>>

Next ==
    \/ CalculateAutomationRisk
    \/ GetRiskLevel
    \/ MapToRiskCategory
    \/ AnalyzeRiskByRole
    \/ GenerateRiskReport
    \/ ExportRiskData
    \/ CreateIntegratedDataset
    \/ ExportIntegratedInsights
    \/ RunIntegratedAnalysis
    \/ MergeDatasets
    \/ JobMarketAnalyzerInit
    \/ Tab1RiskDistribution
    \/ Tab4RiskAssessment
    \/ SearchJobs
    \/ SearchAdzunaJobs
    \/ SearchRapidapiJobs
    \/ CollectSearch
    \/ CollectReturn
    \/ Main
    \/ MainSave
    \/ Return

Spec == Init /\ [][Next]_vars

\* base_risk values of a synthetic profile, in units of 1/DecScale: inside
\* [0,1], on its ends and outside it
NeutralBaseRisks == {-2500, 0, 1025, 5000, 9999, 10000, 13900}

\* a table of one synthetic role whose six attributes are all 0.5
NeutralProfiles(br) ==
    << [key |-> "Neutral Role",
        val |-> RoleProfile(Lit(5000, 5000, 5000, 5000, 5000, 5000, br))] >>

\* The collection is straight-line code around requests.get with a timeout:
\* a pass that can be taken is taken, and the loops once through return.
SpecCollect ==
    /\ Init
    /\ [][Next]_vars
    /\ WF_vars(CollectSearch)
    /\ WF_vars(CollectReturn)

\* an analyzer whose role table is replaced by the synthetic one
InitNeutral ==
    /\ \E br \in NeutralBaseRisks : role_risk_profiles = NeutralProfiles(br)
    /\ risk_factors = InitialRiskFactors
    /\ integrated_df = None
    /\ AnalysisRun \/ CollectionRun
    /\ ret = Idle

SpecNeutral == InitNeutral /\ [][Next]_vars

\* ------------------------------------------------------------------------
\* Properties of the scoring model
\* ------------------------------------------------------------------------
Calls(op) == ret.op = op /\ ~ret.raised

\* a natural number below 2^31 as a number of eight limbs
BigOfInt(v) ==
    <<v % Base, (v \div Base) % Base, v \div (Base * Base), 0, 0, 0, 0, 0>>

\* a <= b
BigLe(a, b) == ~BigLt(b, a)

\* 10^9 in limbs
BigE9 == <<2560, 11883, 3, 0>>

\* |x - e8 / 10^8| <= 10^-9 for a float x >= 2^-27 or zero and a decimal
\* e8 / 10^8 >= 0, decided exactly: with x = man * 2^-s it is
\* |man * 10^9 - 10 * e8 * 2^s| <= 2^s
WithinTolerance(x, e8) ==
    IF x.man = ManZero THEN e8 = 0
    ELSE IF x.neg \/ -x.exp > 80 THEN FALSE
    ELSE LET a == BigMul(x.man, BigE9)
             b == BigShl(BigOfInt(10 * e8), -x.exp)
             t == BigShl(BigOne, -x.exp)
         IN  BigLe(a, BigAdd(b, t)) /\ BigLe(b, BigAdd(a, t))

\* the reference formula on the literals of a profile, in exact decimal
\* arithmetic, in units of 10^-8
RefSumE8(lit) ==
    lit.base_risk * DecScale
      + 3000 * (lit.routine_tasks - 5000)
      + 2000 * (lit.data_processing - 5000)
      - 2500 * (lit.human_interaction - 5000)
      - 3000 * (lit.creative_problem_solving - 5000)
      - 1500 * (lit.technical_complexity - 5000)
      - 1000 * (lit.physical_presence - 5000)

RefClampE8(e8) ==
    IF e8 < 0 THEN 0
    ELSE IF e8 > DecScale * DecScale THEN DecScale * DecScale
    ELSE e8

\* the reference formula as a Python expression over floats, evaluated left
\* to right
RefSumFloat(lit) ==
    LET Term(w, a) == FMul(FromDecimal(w), FSub(FromDecimal(a), FHalf))
        s0 == FromDecimal(lit.base_risk)
        s1 == FAdd(s0, Term(3000, lit.routine_tasks))
        s2 == FAdd(s1, Term(2000, lit.data_processing))
        s3 == FAdd(s2, Term(-2500, lit.human_interaction))
        s4 == FAdd(s3, Term(-3000, lit.creative_problem_solving))
        s5 == FAdd(s4, Term(-1500, lit.technical_complexity))
    IN  FAdd(s5, Term(-1000, lit.physical_presence))

RefClampFloat(x) ==
    IF FLt(x, FZero) THEN FZero ELSE IF FLt(FOne, x) THEN FOne ELSE x

\* C1: every call of calculate_automation_risk, for a role of the table or
\* for any other label, returns a score s with 0 <= s <= 1
C1_ScoreInUnitInterval ==
    Calls("calculate_automation_risk") =>
        FGe(ret.val, FZero) /\ FGe(FOne, ret.val)

\* a call for a role of the shipped table whose weighted sum exceeds 1
C1_Witness ==
    /\ Calls("calculate_automation_risk")
    /\ ret.arg = "Data Entry"
    /\ FLt(FOne, WeightedSum("Data Entry"))
    /\ ret.val = FOne

\* C2: for every role of the shipped table the returned score is the
\* reference formula clamped to [0,1]: equal to the formula evaluated over
\* floats, and within 10^-9 of its exact decimal value
C2_MatchesReferenceFormula ==
    Calls("calculate_automation_risk")
      /\ ret.arg \in DictKeys(RoleLiterals) =>
        LET lit == DictGet(RoleLiterals, ret.arg)
        IN  /\ ret.val = RefClampFloat(RefSumFloat(lit))
            /\ WithinTolerance(ret.val, RefClampE8(RefSumE8(lit)))

\* a call for a role all of whose six factors count and whose sum is not
\* clamped
C2_Witness ==
    /\ Calls("calculate_automation_risk")
    /\ ret.arg = "Backend Developer"
    /\ ret.val = WeightedSum("Backend Developer")
    /\ RefSumE8(DictGet(RoleLiterals, "Backend Developer")) = 42750000

\* C3: for a label that is no key of the table the call returns the float
\* 0.5 and does not raise
C3_UnknownRoleDefault ==
    ret.op = "calculate_automation_risk"
      /\ ret.arg \notin DictKeys(role_risk_profiles) =>
        ~ret.raised /\ ret.val = FromDecimal(5000)

C3_Witness ==
    /\ Calls("calculate_automation_risk")
    /\ ret.arg = "Nonexistent Role Xyz"
    /\ ret.arg \notin DictKeys(role_risk_profiles)
    /\ ret.val = FHalf

\* the level of the decimal n / DecScale by the threshold table of spec.md 4.1
RefLevel(n) ==
    IF n >= 7000 THEN "Very High"
    ELSE IF n >= 5000 THEN "High"
    ELSE IF n >= 3000 THEN "Medium"
    ELSE IF n >= 1500 THEN "Low"
    ELSE "Very Low"

\* C4: get_risk_level returns the level of the chain >= 0.70 Very High,
\* >= 0.50 High, >= 0.30 Medium, >= 0.15 Low, otherwise Very Low, each
\* threshold belonging to the band above it: 0.70 Very High, 0.6999 High,
\* 0.50 High, 0.4999 Medium, 0.30 Medium, 0.15 Low, 0.0 Very Low
C4_LevelThresholds ==
    Calls("get_risk_level") =>
        /\ ret.val = RefLevel(ret.arg)
        /\ ret.arg = 7000 => ret.val = "Very High"
        /\ ret.arg = 6999 => ret.val = "High"
        /\ ret.arg = 5000 => ret.val = "High"
        /\ ret.arg = 4999 => ret.val = "Medium"
        /\ ret.arg = 3000 => ret.val = "Medium"
        /\ ret.arg = 1500 => ret.val = "Low"
        /\ ret.arg = 0 => ret.val = "Very Low"

\* a call with a score that is exactly a threshold
C4_Witness ==
    /\ Calls("get_risk_level")
    /\ ret.arg = 7000
    /\ ret.val = "Very High"

\* C5: for the shipped Data Scientist profile the call returns the
\* unclamped sum, which is 0.1025 to within 10^-9, and the level of that
\* score is Very Low
C5_DataScientistWithinTolerance ==
    Calls("calculate_automation_risk") /\ ret.arg = "Data Scientist" =>
        /\ ret.val = WeightedSum("Data Scientist")
        /\ WithinTolerance(ret.val, 10250000)
        /\ get_risk_level(ret.val) = "Very Low"

C5_Witness ==
    /\ Calls("calculate_automation_risk")
    /\ ret.arg = "Data Scientist"
    /\ RefSumE8(DictGet(RoleLiterals, "Data Scientist")) = 10250000
    /\ FLt(FromDecimal(1025), ret.val)

\* C5 as stated: the call returns exactly 0.1025, the float of that literal
C5_DataScientistExact ==
    Calls("calculate_automation_risk") /\ ret.arg = "Data Scientist" =>
        /\ ret.val = FromDecimal(1025)
        /\ get_risk_level(ret.val) = "Very Low"

\* the score a call for the role returns right after construction
ScoreAtConstruction(role) ==
    IF role \notin DictKeys(InitialRoleRiskProfiles) THEN FHalf
    ELSE LET profile == DictGet(InitialRoleRiskProfiles, role)
         IN  Clamp(ApplyFactors(InitialRiskFactors, profile, 1,
                                profile.base_risk))

\* C6: whatever operations ran before it, a call of
\* calculate_automation_risk returns for its label the very score a call
\* right after construction returns, so any two calls for a label agree
C6_Deterministic ==
    Calls("calculate_automation_risk") =>
        ret.val = ScoreAtConstruction(ret.arg)

\* a call that comes after the integrated dataset was built, an operation
\* that scores and classifies every role
C6_Witness ==
    /\ Calls("calculate_automation_risk")
    /\ ret.arg = "Machine Learning Engineer"
    /\ ~integrated_df.none
    /\ Len(integrated_df.rows) > 0

\* C7: in every reachable state the role profile table and the weight table
\* equal their initial literal values
C7_TablesNeverChange ==
    /\ role_risk_profiles = InitialRoleRiskProfiles
    /\ risk_factors = InitialRiskFactors

\* the integrated analysis has built its dataset and exported its summary
C7_Witness ==
    /\ Calls("export_integrated_insights")
    /\ Len(ret.val) >= 1
    /\ Len(role_risk_profiles) = 14

\* C8: for a profile whose six attributes are all 0.5 the call returns
\* base_risk clamped to [0,1], whatever base_risk is
C8_NeutralAttributes ==
    Calls("calculate_automation_risk") /\ ret.arg = "Neutral Role" =>
        ret.val = RefClampFloat(role_risk_profiles[1].val.base_risk)

\* a call for the neutral profile with a base_risk strictly inside [0,1],
\* returned as it is
C8_Witness ==
    /\ Calls("calculate_automation_risk")
    /\ ret.arg = "Neutral Role"
    /\ role_risk_profiles[1].val.routine_tasks = FHalf
    /\ role_risk_profiles[1].val.base_risk = FromDecimal(1025)
    /\ ret.val = FromDecimal(1025)

\* consecutive floats never go up; never go down
NonIncreasing(scores) ==
    \A i \in 1..(Len(scores) - 1) : ~FLt(scores[i], scores[i + 1])

NonDecreasing(scores) ==
    \A i \in 1..(Len(scores) - 1) : ~FLt(scores[i + 1], scores[i])

\* the hundredths a report line shows never go up
NonIncreasingShown(lines) ==
    \A i \in 1..(Len(lines) - 1) : lines[i].Risk >= lines[i + 1].Risk

\* C9, as the code has it: the rankings of analyze_risk_by_role and of
\* generate_risk_report are non-increasing in score; the table of
\* export_risk_data lists the roles in the order of the role table, unsorted;
\* the summary of export_integrated_insights is non-decreasing in score
C9_AggregateOrders ==
    /\ Calls("analyze_risk_by_role") =>
          NonIncreasing(RiskScoreColumn(ret.val))
    /\ Calls("generate_risk_report") => NonIncreasingShown(ret.val)
    /\ Calls("export_risk_data") =>
          [i \in 1..Len(ret.val) |-> ret.val[i].role]
             = DictKeySeq(role_risk_profiles)
    /\ Calls("export_integrated_insights") =>
          NonDecreasing(AutomationRiskScoreColumn(ret.val))

\* a summary of export_integrated_insights whose scores go up
C9_Witness ==
    /\ Calls("export_integrated_insights")
    /\ Len(ret.val) >= 2
    /\ FLt(ret.val[1].Automation_Risk_Score, ret.val[2].Automation_Risk_Score)

\* C9 as stated: all four aggregates are non-increasing in score
C9_AllNonIncreasing ==
    /\ Calls("analyze_risk_by_role") =>
          NonIncreasing(RiskScoreColumn(ret.val))
    /\ Calls("generate_risk_report") => NonIncreasingShown(ret.val)
    /\ Calls("export_risk_data") =>
          NonIncreasing([i \in 1..Len(ret.val) |->
                            ret.val[i].automation_risk_score])
    /\ Calls("export_integrated_insights") =>
          NonIncreasing(AutomationRiskScoreColumn(ret.val))

\* the place of a role in the role table
TableIndex(role) ==
    CHOOSE i \in 1..Len(role_risk_profiles) : role_risk_profiles[i].key = role

\* rows whose roles have equal scores stand in table order
TiesInTableOrder(rows) ==
    \A i \in 1..Len(rows) : \A j \in (i + 1)..Len(rows) :
        calculate_automation_risk(rows[i].Role)
          = calculate_automation_risk(rows[j].Role)
            => TableIndex(rows[i].Role) < TableIndex(rows[j].Role)

\* C10: in the rankings of analyze_risk_by_role and generate_risk_report two
\* roles of equal score stand in the order they have in the role table
C10_TiesKeepTableOrder ==
    Calls("analyze_risk_by_role") \/ Calls("generate_risk_report") =>
        TiesInTableOrder(ret.val)

\* every role of the table stands in exactly one of the rows
OneRowPerRole(roles) ==
    /\ Len(roles) = Len(role_risk_profiles)
    /\ \A role \in DictKeys(role_risk_profiles) :
          Cardinality({i \in 1..Len(roles) : roles[i] = role}) = 1

\* C11: the aggregates of analyze_risk_by_role, generate_risk_report and
\* export_risk_data hold exactly one row per role of the role profile table:
\* no role is missing and none appears twice
C11_OneResultPerRole ==
    /\ Calls("analyze_risk_by_role") \/ Calls("generate_risk_report") =>
          OneRowPerRole([i \in 1..Len(ret.val) |-> ret.val[i].Role])
    /\ Calls("export_risk_data") =>
          OneRowPerRole([i \in 1..Len(ret.val) |-> ret.val[i].role])

\* a ranking of analyze_risk_by_role whose order is not the table's
C11_Witness ==
    /\ Calls("analyze_risk_by_role")
    /\ Len(ret.val) = Len(role_risk_profiles)
    /\ \E i \in 1..Len(ret.val) : ret.val[i].Role # role_risk_profiles[i].key

\* the score and the level of a row are those of its role
RowAgrees(role, score, level) ==
    /\ score = calculate_automation_risk(role)
    /\ level = get_risk_level(score)

\* the rows of the integrated dataset agree with their risk_category
IntegratedRowsAgree(rows) ==
    \A i \in 1..Len(rows) :
        RowAgrees(rows[i].risk_category, rows[i].automation_risk_score,
                  rows[i].risk_level)

\* C12: in every (role, score, level) row that analyze_risk_by_role,
\* generate_risk_report, export_risk_data and create_integrated_dataset
\* report or store, score is calculate_automation_risk(role) and level is
\* get_risk_level(score); a line of the report file shows that score to two
\* decimals
C12_RowsAgreeWithScoring ==
    /\ Calls("analyze_risk_by_role") =>
          \A i \in 1..Len(ret.val) :
              RowAgrees(ret.val[i].Role, ret.val[i].Risk_Score,
                        ret.val[i].Risk_Level)
    /\ Calls("generate_risk_report") =>
          \A i \in 1..Len(ret.val) :
              /\ ret.val[i].Risk =
                    Format2f(calculate_automation_risk(ret.val[i].Role))
              /\ ret.val[i].Risk_Level =
                    get_risk_level(calculate_automation_risk(ret.val[i].Role))
    /\ Calls("export_risk_data") =>
          \A i \in 1..Len(ret.val) :
              RowAgrees(ret.val[i].role, ret.val[i].automation_risk_score,
                        ret.val[i].risk_level)
    /\ Calls("create_integrated_dataset") => IntegratedRowsAgree(ret.val)
    /\ ~integrated_df.none => IntegratedRowsAgree(integrated_df.rows)

\* an integrated dataset stored with a record mapped to 'DevOps Engineer'
C12_Witness ==
    /\ ~integrated_df.none
    /\ \E i \in 1..Len(integrated_df.rows) :
          /\ integrated_df.rows[i].risk_category = "DevOps Engineer"
          /\ integrated_df.rows[i].risk_level = "Medium"
          /\ integrated_df.rows[i].automation_risk_score = FromDecimal(4800)

\* a title outside the role table of the dashboard's analyzer is reported
\* with the fallback score and the level Medium
UnknownIsMedium(a) ==
    a.role \notin DictKeys(DashboardProfiles) =>
        a.score = FHalf /\ a.level = "Medium"

\* C13: wherever a label absent from the role table is given the fallback
\* score 0.5 (the two tabs of the dashboard, the integrated dataset), the
\* level reported with it is Medium
C13_UnknownRoleIsMedium ==
    /\ Calls("tab4_risk_assessment") => UnknownIsMedium(ret.val)
    /\ Calls("tab1_risk_distribution") =>
          \A i \in 1..Len(ret.val) : UnknownIsMedium(ret.val[i])
    /\ Calls("create_integrated_dataset") =>
          \A i \in 1..Len(ret.val) :
              ret.val[i].risk_category \notin DictKeys(role_risk_profiles) =>
                  /\ ret.val[i].automation_risk_score = FHalf
                  /\ ret.val[i].risk_level = "Medium"

\* C14, as the code has it: get_risk_level applies the same comparison chain
\* to scores outside [0,1]; a negative score fails every comparison and is
\* Very Low, a score greater than 1 passes the first and is Very High
C14_OutOfRangeLevels ==
    Calls("get_risk_level") =>
        /\ ret.arg < 0 => ret.val = "Very Low"
        /\ ret.arg > DecScale => ret.val = "Very High"

\* get_risk_level was called with a negative score
C14_Witness ==
    /\ Calls("get_risk_level")
    /\ ret.arg < 0
    /\ ret.val = "Very Low"

\* C14 as stated: a negative score is Very High, a score above 1 is Very Low
C14_NegativeVeryHigh ==
    Calls("get_risk_level") =>
        /\ ret.arg < 0 => ret.val = "Very High"
        /\ ret.arg > DecScale => ret.val = "Very Low"

\* a float of the closed interval [0, 1]
InUnitInterval(x) == ~FLt(x, FZero) /\ ~FLt(FOne, x)

\* C15: every attribute value and every base_risk of every profile of the
\* role profile table the analyzer ships lies in [0,1]
C15_ProfileValuesInUnitInterval ==
    \A i \in 1..Len(role_risk_profiles) :
        \A f \in DOMAIN role_risk_profiles[i].val :
            InUnitInterval(role_risk_profiles[i].val[f])

\* the shipped table, with its largest and its smallest value in place, in
\* use by a call
C15_Witness ==
    /\ ret.op # "idle"
    /\ Len(role_risk_profiles) = Len(RoleLiterals)
    /\ DictGet(role_risk_profiles, "Data Entry").routine_tasks
          = FromDecimal(9500)
    /\ DictGet(role_risk_profiles, "Data Entry").physical_presence
          = FromDecimal(500)

\* every factor of the weight table is an attribute of every profile
FactorsInEveryProfile(profiles) ==
    \A i \in 1..Len(profiles) :
        DictKeys(risk_factors) \subseteq DOMAIN profiles[i].val

\* C16: the factor names of the weight table are a subset of the attribute
\* names of every profile of the AutomationRiskAnalyzer table and of the table
\* of the analyzer the dashboard holds
C16_FactorsInEveryProfile ==
    /\ FactorsInEveryProfile(role_risk_profiles)
    /\ FactorsInEveryProfile(DashboardProfiles)

\* the role labels the normalization can name
MappedLabels ==
    {Mappings[i].val : i \in 1..Len(Mappings)} \cup {"Software Engineer"}

\* no keyword of the rules is contained in the title, whatever its case
NoKeywordIn(job_title) ==
    \A i \in 1..Len(Mappings) :
        ~StrContains(StrLower(job_title), Mappings[i].key)

\* C17: the normalization is total: for every value the column search_term
\* can hold, a missing value included, map_to_risk_category returns a role
\* label without raising, 'Software Engineer' when the value holds no keyword;
\* so does the normalization local to create_integrated_dataset
C17_NormalizationTotal ==
    /\ ret.op = "map_to_risk_category" =>
          /\ ~ret.raised
          /\ ret.val \in MappedLabels
          /\ (ret.arg # NaN /\ NoKeywordIn(ret.arg)) =>
                ret.val = "Software Engineer"
    /\ Calls("create_integrated_dataset") =>
          \A i \in 1..Len(ret.val) :
              /\ ret.val[i].risk_category \in MappedLabels
              /\ (ret.val[i].search_term = NaN
                    \/ NoKeywordIn(ret.val[i].search_term)) =>
                    ret.val[i].risk_category = "Software Engineer"

\* the title in capital letters
StrUpper(s) ==
    [i \in 1..Len(s) |->
        IF \E k \in 1..Len(Lower) : Lower[k] = s[i]
        THEN Upper[CHOOSE k \in 1..Len(Lower) : Lower[k] = s[i]]
        ELSE s[i]]

\* the places in the list of rules of the keywords the title contains,
\* whatever its case
KeywordsIn(job_title) ==
    {i \in 1..Len(Mappings) :
        StrContains(StrLower(job_title), Mappings[i].key)}

\* the role of the keyword listed earliest among those contained
RoleOfEarliestKeyword(job_title) ==
    IF KeywordsIn(job_title) = {} THEN "Software Engineer"
    ELSE Mappings[CHOOSE i \in KeywordsIn(job_title) :
                      \A j \in KeywordsIn(job_title) : i <= j].val

\* C18: for a title, either normalization returns the role of the keyword
\* listed earliest among the keywords the title contains, case ignored, and
\* returns the same role for the title in capitals and in small letters
C18_FirstListedKeywordWins ==
    /\ Calls("map_to_risk_category") =>
          /\ ret.val = RoleOfEarliestKeyword(ret.arg)
          /\ map_to_risk_category(StrUpper(ret.arg)).val = ret.val
          /\ map_to_risk_category(StrLower(ret.arg)).val = ret.val
    /\ Calls("create_integrated_dataset") =>
          \A i \in 1..Len(ret.val) :
              ret.val[i].search_term # NaN =>
                 /\ ret.val[i].risk_category
                       = RoleOfEarliestKeyword(ret.val[i].search_term)
                 /\ integrated_map_to_risk_category(
                        StrUpper(ret.val[i].search_term))
                       = ret.val[i].risk_category
                 /\ integrated_map_to_risk_category(
                        StrLower(ret.val[i].search_term))
                       = ret.val[i].risk_category

\* a title that holds the last keyword of the list before the first one, in
\* mixed case, was mapped to the role of the first
C18_Witness ==
    /\ Calls("map_to_risk_category")
    /\ ret.arg = TitleAnalystScientist
    /\ Cardinality(KeywordsIn(ret.arg)) = 2
    /\ ret.arg # StrLower(ret.arg)
    /\ ret.val = "Data Scientist"

\* a label of the fixed vocabulary of the dashboard's analyzer: a key of its
\* role table or an output of the normalization
InVocabulary(label) ==
    label \in DictKeys(DashboardProfiles) \cup MappedLabels

\* C19: every label a collaborator passes to calculate_automation_risk is a
\* key of the role profile table or an output of the normalization, never a
\* raw job title of the collected data
C19_LabelsArePreMapped ==
    /\ Calls("tab4_risk_assessment") => InVocabulary(ret.val.role)
    /\ Calls("tab1_risk_distribution") =>
          \A i \in 1..Len(ret.val) : InVocabulary(ret.val[i].role)
    /\ Calls("analyze_risk_by_role") \/ Calls("generate_risk_report") =>
          \A i \in 1..Len(ret.val) :
              ret.val[i].Role \in DictKeys(role_risk_profiles)
    /\ Calls("export_risk_data") =>
          \A i \in 1..Len(ret.val) :
              ret.val[i].role \in DictKeys(role_risk_profiles)
    /\ Calls("export_integrated_insights") =>
          \A i \in 1..Len(ret.val) :
              ret.val[i].Role \in DictKeys(role_risk_profiles)

\* the searches of the collectors
SearchOps == {"search_jobs", "search_adzuna_jobs", "search_rapidapi_jobs"}

\* a search that returns, returns at most max_results records and has left
\* at most max_results records more in jobs_data
AtMostMaxResults(ops) ==
    (ret.op = "idle" /\ ret'.op \in ops) =>
        /\ Len(ret'.val) <= ret'.arg.max_results
        /\ Len(collector'.jobs_data) - Len(collector.jobs_data)
              <= ret'.arg.max_results

\* C20: whatever number of results the response carries, search_jobs,
\* search_adzuna_jobs and search_rapidapi_jobs return at most max_results
\* records and append at most max_results records to jobs_data in the call
C20_AtMostMaxResults == [][AtMostMaxResults(SearchOps)]_vars

\* ------------------------------------------------------------------------
\* C21: the collection searches every pair once, in title-major order
\* ------------------------------------------------------------------------
RECURSIVE TitleMajorSearches(_)
\* the first n (job title, location) pairs, the job title changing slowest
TitleMajorSearches(n) ==
    IF n = 0 THEN <<>>
    ELSE Append(TitleMajorSearches(n - 1),
                [job_title |-> JobTitlesList[((n - 1) \div NumLocations) + 1],
                 location  |-> LocationsList[((n - 1) % NumLocations) + 1]])

Collecting == ret.op = "collect_comprehensive_data.loop"

\* while it runs the searches issued are the first pairs in title-major
\* order, none twice; what it returns is jobs_data, after a search of every
\* pair, and as long as the total it reported
CollectedInOrder ==
    /\ Collecting =>
          /\ ret.val.searches = TitleMajorSearches(ret.val.search_count)
          /\ ret.val.search_count <= NumTitles * NumLocations
    /\ Calls("collect_comprehensive_data") =>
          /\ ret.arg.search_count = NumTitles * NumLocations
          /\ ret.arg.searches = TitleMajorSearches(NumTitles * NumLocations)
          /\ \A m, n \in 1..Len(ret.arg.searches) :
                m # n => ret.arg.searches[m] # ret.arg.searches[n]
          /\ \A t \in 1..NumTitles, l \in 1..NumLocations :
                \E n \in 1..Len(ret.arg.searches) :
                   ret.arg.searches[n] = [job_title |-> JobTitlesList[t],
                                          location  |-> LocationsList[l]]
          /\ ret.val = collector.jobs_data
          /\ Len(ret.val) = ret.arg.total_jobs

FailedSearchKeepsJobsData ==
    (/\ ret.op = "idle"
     /\ ret'.op \in SearchOps
     /\ ret'.arg.response.kind = "RequestException")
    => /\ ~ret'.raised
       /\ ret'.val = <<>>
       /\ collector' = collector

\* C22: when the HTTP request of a search fails, the search returns an empty
\* list and jobs_data is exactly what it was before the call, the records of
\* earlier searches included.
C22_FailedRequestKeepsJobsData == [][FailedSearchKeepsJobsData]_vars

\* a search failed on a collector that holds records of earlier searches
C22_Witness ==
    /\ ret.op \in SearchOps
    /\ ret.arg.response.kind = "RequestException"
    /\ ret.val = <<>>
    /\ collector.jobs_data # <<>>

\* ------------------------------------------------------------------------
\* C23: a source without credentials is skipped
\* ------------------------------------------------------------------------
Dual == collector.class = "DualAPIJobCollector"

NoAdzunaKeys == ~collector.adzuna_app_id \/ ~collector.adzuna_app_key

\* a search of a source whose keys are missing issues no request, returns
\* the empty list and leaves the collector as it was; main of a collector
\* with no usable source returns None at once: no search, no file
SkippedWithoutCredentials ==
    /\ (ret.op = "idle" /\ ret'.op = "search_adzuna_jobs" /\ NoAdzunaKeys)
       => /\ ret'.arg.response = NoRequest
          /\ ~ret'.raised
          /\ ret'.val = <<>>
          /\ collector' = collector
    /\ (ret.op = "idle" /\ ret'.op = "search_rapidapi_jobs"
        /\ ~collector.rapidapi_key)
       => /\ ret'.arg.response = NoRequest
          /\ ~ret'.raised
          /\ ret'.val = <<>>
          /\ collector' = collector
    /\ (ret.op = "idle" /\ Dual /\ NoAdzunaKeys /\ ~collector.rapidapi_key
        /\ ret'.op \in {"main", "collect_comprehensive_data.loop"})
       => /\ ret'.op = "main"
          /\ ~ret'.raised
          /\ ret'.val = MainResult("None", 0, <<>>)
          /\ collector' = collector

\* C23: in the dual collector search_adzuna_jobs without the Adzuna id or
\* key, and search_rapidapi_jobs without the RapidAPI key, issue no request,
\* return an empty list and leave jobs_data unchanged; with no source that
\* has credentials main collects nothing, writes no file and returns None.
C23_NoCredentialsNoRequest == [][SkippedWithoutCredentials]_vars

\* main returned None for a collector that has the Adzuna id but neither
\* the Adzuna key nor the RapidAPI key
C23_Witness ==
    /\ Calls("main")
    /\ Dual
    /\ collector.adzuna_app_id
    /\ ~collector.adzuna_app_key
    /\ ~collector.rapidapi_key
    /\ ret.val.filename = "None"
    /\ ret.val.files = 0
    /\ ret.val.searches = <<>>

\* ------------------------------------------------------------------------
\* C24: the merge keeps every demand record
\* ------------------------------------------------------------------------
\* every demand row is in the merged rows under its normalized title, and a
\* merged row whose title no row of the reference has carries the score 0.5
DemandRowsKept ==
    Calls("merge_datasets") =>
       /\ \A i \in 1..Len(ret.arg.demand_df) :
             \E k \in 1..Len(ret.val) :
                /\ ret.val[k].openings = ret.arg.demand_df[i].openings
                /\ ret.val[k].job_title
                      = NormalizedTitle(ret.arg.demand_df[i].job_title)
       /\ Len(ret.val) >= Len(ret.arg.demand_df)
       /\ \A k \in 1..Len(ret.val) :
             (\A j \in 1..Len(ret.arg.risk_df) :
                 NormalizedTitle(ret.arg.risk_df[j].job_title)
                    # ret.val[k].job_title)
             => ret.val[k].automation_risk_score = FromDecimal(5000)

\* C24: merge_datasets drops no demand row, also when its trimmed,
\* lower-cased job title has no match in the risk reference, and every merged
\* row whose title has no match carries automation_risk_score 0.5.
C24_MergeKeepsDemandRows == DemandRowsKept

\* a merge in which one title matched after trimming and lower-casing and
\* another, unmatched, was kept with the score 0.5
C24_Witness ==
    /\ Calls("merge_datasets")
    /\ ret.arg.risk_df # <<>>
    /\ \E k \in 1..Len(ret.val) :
          /\ ret.val[k].job_title = <<"c", "h", "e", "f">>
          /\ ret.val[k].automation_risk_score = FromDecimal(5000)
    /\ \E k \in 1..Len(ret.val) :
          /\ ret.val[k].job_title = <<"n", "u", "r", "s", "e">>
          /\ ret.val[k].automation_risk_score = FromDecimal(2000)

\* ------------------------------------------------------------------------
\* C25: the records of JobMarketAnalyzer carry a risk_category
\* ------------------------------------------------------------------------
\* C25: after JobMarketAnalyzer is constructed over a readable CSV,
\* clean_data has run to completion and every record of its dataset carries
\* a risk_category equal to the normalization of its search_term.
C25_RecordsCarryRiskCategory ==
    (Calls("JobMarketAnalyzer") /\ ~ret.arg.none) =>
       /\ ret.val.clean_data_completed
       /\ \A n \in 1..Len(ret.val.df.rows) :
             /\ "risk_category" \in DOMAIN ret.val.df.rows[n]
             /\ ret.val.df.rows[n].risk_category
                   = integrated_map_to_risk_category(
                        ret.val.df.rows[n].search_term)

\* what the constructor leaves over a readable CSV: clean_data was cut short
\* by the AttributeError that load_data catches, and no record has a
\* risk_category
C25_CleanDataCutShort ==
    (Calls("JobMarketAnalyzer") /\ ~ret.arg.none) =>
       /\ ~ret.val.clean_data_completed
       /\ ret.val.caught = "AttributeError"
       /\ \A n \in 1..Len(ret.val.df.rows) :
             "risk_category" \notin DOMAIN ret.val.df.rows[n]

\* ------------------------------------------------------------------------
\* C26: the steps of run_integrated_analysis
\* ------------------------------------------------------------------------
\* the steps run are the first ones of the fixed order, every step before
\* the last one run completed, all of them ran unless one raised, what a
\* step raised was caught, and without job data the first step raises
StepsInOrderUntilRaise ==
    /\ ret.op = "run_integrated_analysis" => ~ret.raised
    /\ Calls("run_integrated_analysis") =>
          /\ Len(ret.val.steps) \in 1..7
          /\ ret.val.steps[1].step = "create_integrated_dataset"
          /\ Len(ret.val.steps) >= 2
                => ret.val.steps[2].step = "analyze_salary_vs_risk"
          /\ Len(ret.val.steps) >= 3
                => ret.val.steps[3].step = "analyze_market_demand_vs_risk"
          /\ Len(ret.val.steps) >= 4
                => ret.val.steps[4].step = "analyze_location_risk_patterns"
          /\ Len(ret.val.steps) >= 5
                => ret.val.steps[5].step = "generate_strategic_insights"
          /\ Len(ret.val.steps) >= 6
                => ret.val.steps[6].step = "create_integrated_dashboard"
          /\ Len(ret.val.steps) >= 7
                => ret.val.steps[7].step = "export_integrated_insights"
          /\ \A k \in 1..(Len(ret.val.steps) - 1) : ~ret.val.steps[k].raised
          /\ ret.val.steps[Len(ret.val.steps)].raised
                <=> ret.val.caught # "None"
          /\ ret.val.caught = "None" => Len(ret.val.steps) = 7
          /\ market_df.none
                => /\ Len(ret.val.steps) = 1
                   /\ ret.val.caught # "None"

\* C26: run_integrated_analysis runs its seven steps in the fixed order; a
\* step runs only if every earlier step completed without an exception, and
\* an exception of any step, also when there is no job data because the
\* constructor returned early, is caught and logged and never reaches the
\* caller.
C26_StepsInOrderUntilRaise == StepsInOrderUntilRaise

\* analyze_location_risk_patterns raised after three steps had completed:
\* the exception was caught and no later step ran
C26_Witness ==
    /\ Calls("run_integrated_analysis")
    /\ Len(ret.val.steps) = 4
    /\ ret.val.steps[4].raised
    /\ ret.val.caught = "Exception"

\* ------------------------------------------------------------------------
\* C27: the normalization names roles of the table only
\* ------------------------------------------------------------------------
\* the role labels the normalization local to create_integrated_dataset can
\* name
IntegratedLabels ==
    {IntegratedMappings[i].val : i \in 1..Len(IntegratedMappings)}
    \cup {"Software Engineer"}

\* C27: every value the normalization can return, the default included, is
\* a key of the role profile table; so no record of create_integrated_dataset
\* takes the fallback defaults: its risk_category has an entry in
\* risk_scores, and its automation_risk_score and risk_level are the ones
\* computed for that category.
C27_LabelsAreTableKeys ==
    /\ MappedLabels \cup IntegratedLabels \subseteq DictKeys(role_risk_profiles)
    /\ Calls("map_to_risk_category") =>
          ret.val \in DictKeys(role_risk_profiles)
    /\ Calls("create_integrated_dataset") =>
          /\ \A i \in 1..Len(ret.val) :
                ret.val[i].risk_category \in DictKeys(role_risk_profiles)
          /\ IntegratedRowsAgree(ret.val)

\* a record without a search_term, next to one with a keyword, fell to the
\* default label and carries the score computed for that role, not 0.5
C27_Witness ==
    /\ Calls("create_integrated_dataset")
    /\ \E i, j \in 1..Len(ret.val) :
          /\ ret.val[i].search_term = NaN
          /\ ret.val[j].search_term = TitleSeniorDevOps
          /\ ret.val[i].risk_category = "Software Engineer"
          /\ ret.val[i].automation_risk_score
                = calculate_automation_risk("Software Engineer")
          /\ ret.val[i].automation_risk_score # FHalf

\* ------------------------------------------------------------------------
\* C28: the two normalizations agree on strings
\* ------------------------------------------------------------------------
\* C28: AutomationRiskAnalyzer.map_to_risk_category and the function local
\* to create_integrated_dataset return the same role label for every string.
C28_NormalizationsAgree ==
    /\ Len(IntegratedMappings) = Len(Mappings)
    /\ Calls("map_to_risk_category") =>
          ret.val = integrated_map_to_risk_category(ret.arg)
    /\ Calls("create_integrated_dataset") =>
          \A i \in 1..Len(ret.val) :
              ret.val[i].search_term # NaN =>
                 /\ ~map_to_risk_category(ret.val[i].search_term).raised
                 /\ map_to_risk_category(ret.val[i].search_term).val
                       = ret.val[i].risk_category

\* the analyzer's method mapped a title that holds 'DEVOPS' in capitals, and
\* the local function maps it to the same role
C28_Witness ==
    /\ Calls("map_to_risk_category")
    /\ ret.arg = TitleSeniorDevOps
    /\ ret.val = "DevOps Engineer"
    /\ integrated_map_to_risk_category(TitleSeniorDevOps) = "DevOps Engineer"

====
